---------------------------- MODULE Spec2Model ----------------------------
(***************************************************************************)
(* Connection and state-synchronisation core of the ppg desktop client:    *)
(*   - WsManager (api/websocket.rs): the supervised reconnect loop,        *)
(*   - handle_message (api/websocket.rs): decoding of inbound frames,      *)
(*   - Services / AppState (state.rs): run-time services, the event and    *)
(*     toast channels, the RwLock-guarded application state,               *)
(*   - MainWindow::setup_event_loops (ui/window.rs): the consumer tasks.   *)
(***************************************************************************)
EXTENDS Integers, Sequences, FiniteSets, TLC

(***************************************************************************)
(* Bounds of the model.                                                    *)
(***************************************************************************)
\* connection loops one manager spawns over its life (size of the loop table)
MaxLoops == 2
\* calls of WsManager::connect in a behaviour of Spec
MaxConnects == 1
\* events the unbounded event channel holds at once
MaxQueue == 1
\* the count of consecutive backoff waits saturates here
MaxWaits == 7
\* threads calling AppState::set_manifest and AppState::manifest
MaxThreads == 3
\* Transport Client calls in flight or awaiting their callback at once
MaxCalls == 2
\* toasts the unbounded toast channel holds at once
MaxToasts == 2
\* worktree entries of a manifest given to the dashboard
MaxWorktreeEntries == 1
\* agent entries of one worktree of such a manifest
MaxAgentEntries == 2
\* characters of a string given to shell_escape
MaxLen == 3
\* events sent into the event channel in a behaviour of SpecChannel
MaxSent == 3

(***************************************************************************)
(* Program constants.                                                      *)
(***************************************************************************)
\* websocket.rs:97 and :111, `backoff_ms = 1000`
FloorMs == 1000
\* websocket.rs:98, `max_backoff_ms = 30_000`
max_backoff_ms == 30000

Loops == 1..MaxLoops
Threads == 1..MaxThreads
Calls == 1..MaxCalls

Min(a, b) == IF a <= b THEN a ELSE b

RECURSIVE Pow2(_)
Pow2(n) == IF n = 0 THEN 1 ELSE 2 * Pow2(n - 1)

(***************************************************************************)
(* Option<T>                                                               *)
(***************************************************************************)
None == [some |-> FALSE]
Some(v) == [some |-> TRUE, val |-> v]

(***************************************************************************)
(* models/manifest.rs: Manifest (the fields the core distinguishes).       *)
(***************************************************************************)
\* worktrees: the map of worktree id to the ids of its agents
Manifest(v, s, w) == [version |-> v, session_name |-> s, worktrees |-> w]
Manifests ==
    {Manifest(1, "s1", [w \in {"wt-a"} |-> {"ag-1"}]),
     Manifest(2, "s2", [w \in {"wt-b"} |-> {"ag-2"}])}
\* a map with no entry
NoWorktrees == [w \in {} |-> {}]

(***************************************************************************)
(* api/websocket.rs: WsEvent                                               *)
(***************************************************************************)
EvConnected == [ev |-> "Connected"]
EvDisconnected == [ev |-> "Disconnected"]
EvManifestUpdated(m) == [ev |-> "ManifestUpdated", manifest |-> m]
EvAgentStatusChanged(w, a, s, ws) ==
    [ev |-> "AgentStatusChanged", worktree_id |-> w, agent_id |-> a,
     status |-> s, worktree_status |-> ws]
EvTerminalOutput(a, d) == [ev |-> "TerminalOutput", agent_id |-> a, data |-> d]
EvError(msg) == [ev |-> "Error", msg |-> msg]

(***************************************************************************)
(* Inbound text frames: a JSON object is a record of its members; text     *)
(* that is no JSON object is a record without a "type" member.             *)
(***************************************************************************)
TxtPong == [type |-> "pong"]
TxtManifest(m) == [type |-> "manifest:updated", manifest |-> m]
TxtError == [type |-> "error", code |-> "AUTH", message |-> "invalid token"]
\* a known tag with a member missing
TxtMissingField == [type |-> "error", code |-> "AUTH"]

\* the frames a server may send: the six variants, a tag outside the
\* protocol ("agent:spawned") and text that is no JSON object
TextFrames ==
    {TxtPong,
     [type |-> "agent:status", worktreeId |-> "wt1", agentId |-> "ag1",
      status |-> "exited", worktreeStatus |-> "active"],
     [type |-> "terminal:output", agentId |-> "ag1", data |-> "ls"],
     TxtError,
     [type |-> "agent:spawned", agentId |-> "ag1"],
     TxtMissingField,
     [raw |-> "{{"]}
        \cup {TxtManifest(m) : m \in Manifests}

\* serde's required members of each tagged variant (websocket.rs:32-50)
RequiredFields(tag) ==
    CASE tag = "pong" -> {}
      [] tag = "manifest:updated" -> {"manifest"}
      [] tag = "agent:status" -> {"worktreeId", "agentId", "status", "worktreeStatus"}
      [] tag = "terminal:output" -> {"agentId", "data"}
      [] tag = "error" -> {"code", "message"}

ServerTags == {"pong", "manifest:updated", "agent:status", "terminal:output", "error"}

\* serde_json::from_str::<ServerEvent>(text) succeeds (websocket.rs:189)
Decodes(text) ==
    /\ "type" \in DOMAIN text
    /\ text.type \in ServerTags
    /\ RequiredFields(text.type) \subseteq DOMAIN text

\* faulty variant: the error frame also forwards nothing
HandleMessageDropsError(text) ==
    IF ~Decodes(text) THEN <<>>
    ELSE CASE text.type = "manifest:updated" -> <<EvManifestUpdated(text.manifest)>>
           [] text.type = "agent:status" ->
                <<EvAgentStatusChanged(text.worktreeId, text.agentId,
                                       text.status, text.worktreeStatus)>>
           [] text.type = "terminal:output" ->
                <<EvTerminalOutput(text.agentId, text.data)>>
           [] OTHER -> <<>>

\* faulty variant: the pong frame is forwarded as a sign of life
HandleMessagePongEmits(text) ==
    IF ~Decodes(text) THEN <<>>
    ELSE CASE text.type = "pong" -> <<EvConnected>>
           [] text.type = "manifest:updated" -> <<EvManifestUpdated(text.manifest)>>
           [] text.type = "agent:status" ->
                <<EvAgentStatusChanged(text.worktreeId, text.agentId,
                                       text.status, text.worktreeStatus)>>
           [] text.type = "terminal:output" ->
                <<EvTerminalOutput(text.agentId, text.data)>>
           [] text.type = "error" ->
                <<EvError(text.code \o ": " \o text.message)>>

\* handle_message (websocket.rs:188-216): the events it sends for one text frame
HandleMessage(text) ==
    IF ~Decodes(text) THEN <<>>
    ELSE CASE text.type = "pong" -> <<>>
           [] text.type = "manifest:updated" -> <<EvManifestUpdated(text.manifest)>>
           [] text.type = "agent:status" ->
                <<EvAgentStatusChanged(text.worktreeId, text.agentId,
                                       text.status, text.worktreeStatus)>>
           [] text.type = "terminal:output" ->
                <<EvTerminalOutput(text.agentId, text.data)>>
           [] text.type = "error" ->
                <<EvError(text.code \o ": " \o text.message)>>

(***************************************************************************)
(* tungstenite messages the read loop matches on (websocket.rs:130-152);   *)
(* "End" is the stream yielding None.                                      *)
(***************************************************************************)
MsgText(t) == [kind |-> "Text", text |-> t]
MsgClose == [kind |-> "Close"]
Messages ==
    {MsgText(t) : t \in TextFrames}
        \cup {MsgClose} \cup {[kind |-> k] : k \in {"Ping", "Err", "Binary", "End"}}

\* transport errors connect_async reports
ConnectErrors == {"refused"}

(***************************************************************************)
(* Addresses and settings. An address "scheme://host" with or without a    *)
(* trailing "/" is the record of its parts; a URL built from it carries    *)
(* the path and the query as further parts.                                *)
(***************************************************************************)
Url(scheme, host, slash) == [scheme |-> scheme, host |-> host, slash |-> slash]

\* AppSettings::default (settings.rs:41-43, :53-63), the connection part
DefaultSettings ==
    [server_url |-> Url("http", "localhost:3000", FALSE), bearer_token |-> None]

\* what the settings dialog may hold when it is closed
Configs ==
    {DefaultSettings,
     [server_url |-> Url("https", "ppg.example", TRUE), bearer_token |-> Some("tok")]}

\* str::trim_end_matches('/') (client.rs:103, :109; websocket.rs:93)
TrimEndSlash(u) == [u EXCEPT !.slash = FALSE]

\* websocket.rs:90-93: http -> ws, https -> wss, trailing "/" cut, path added
WsUrl(base_url) ==
    [scheme |-> CASE base_url.scheme = "http" -> "ws"
                  [] base_url.scheme = "https" -> "wss"
                  [] OTHER -> base_url.scheme,
     host |-> base_url.host,
     path |-> "/api/events"]

\* websocket.rs:103-107: the URL of one attempt, the token as a query
AttemptUrl(target) ==
    [scheme |-> target.ws_url.scheme, host |-> target.ws_url.host,
     path |-> target.ws_url.path, token |-> target.token]

\* what the spawned task captures of connect()'s arguments (websocket.rs:83-95)
Target(cfg) == [ws_url |-> WsUrl(cfg.server_url), token |-> cfg.bearer_token]

\* PpgClient::new and update_connection (client.rs:100-111)
ClientOf(base_url, token) == [base_url |-> TrimEndSlash(base_url), token |-> token]

\* a call slot with no call in it
IdleCall == [st |-> "idle"]

VARIABLES
    running,        \* WsManager.running (AtomicBool)
    spawned,        \* number of loops spawned so far
    ui,             \* position of the main thread inside reconnect_ws
    pc,             \* per loop: position of the spawned task
    backoff_ms,     \* per loop: the task's local backoff_ms (0: no such local)
    attempt,        \* per loop: how the current iteration's attempt went
    ping_handle,    \* per loop: the keepalive task of the open stream is alive
    nwait,          \* history: consecutive waits since the last reset of backoff
    stream_log,     \* history: a frame of the open stream failed to decode
    reset_hit,      \* history: the open of this iteration lowered the delay
    stopped_in_wait,\* history: disconnect() hit the loop in its backoff sleep
    bracket,        \* history: where the events the loop has sent stand
    ws_queue,       \* the event channel (ws_tx -> ws_rx)
    ws_rx,          \* Services.ws_rx: the receiver, until it is taken
    toast_rx,       \* Services.toast_rx
    ws_consumers,   \* consumer tasks draining the event channel
    toast_consumers,\* sink tasks draining the toast channel
    manifest,       \* AppStateInner.manifest
    connection,     \* AppStateInner.connection
    rw_writer,      \* AppState.inner (RwLock): the thread holding it for writing, or 0
    rw_readers,     \* AppState.inner (RwLock): the threads holding it for reading
    tpc,            \* per thread: position inside set_manifest / manifest
    targ,           \* per thread: the argument of its set_manifest
    tbuf,           \* per thread: the clone manifest() is building
    last_set,       \* history: the value of the last set_manifest that returned
    ws_url,         \* per loop: the address and token the task captured
    probes_sent,    \* per loop: liveness probes written to the stream so far
    settings,       \* AppStateInner.settings
    saved,          \* the settings file as last written by save()
    client,         \* PpgClient: base_url and token
    calls,          \* per call slot: a Transport Client call and its request
    win,            \* MainWindow: start() not yet run, or the page shown
    toast_queue,    \* the toast channel (toast_tx -> toast_rx)
    last_event,     \* history: the last lifecycle event the consumer applied
    status_label,   \* MainWindow.status_label: the status the header shows
    server,         \* the remote service: the snapshots it has produced so far
    sent_events,    \* history: the events sent into the channel in SpecChannel
    input,          \* the argument of a function checked on its own
    output          \* the value the function returned for it

mgrVars == <<running, spawned, ui, pc, backoff_ms, attempt, ping_handle, nwait,
             stream_log, reset_hit, stopped_in_wait, bracket, ws_url,
             probes_sent>>
appVars == <<settings, saved, client, calls, win, toast_queue>>
chanVars == <<ws_rx, toast_rx, ws_consumers, toast_consumers>>
fnVars == <<input, output>>
lockVars == <<rw_writer, rw_readers, tpc, targ, tbuf, last_set>>
stateVars == <<manifest, connection, lockVars>>
notState == <<mgrVars, ws_queue, chanVars, connection, appVars, fnVars, last_event,
              status_label, server, sent_events>>
vars == <<mgrVars, ws_queue, chanVars, stateVars, appVars, fnVars, last_event,
          status_label, server, sent_events>>


(***************************************************************************)
(* State after Services::new (state.rs:119-143), AppState::new             *)
(* (state.rs:52-60) and WsManager::new (websocket.rs:73-77).               *)
(***************************************************************************)
InitProgram ==
    /\ running = FALSE
    /\ spawned = 0
    /\ ui = "idle"
    /\ pc = [l \in Loops |-> "unborn"]
    /\ backoff_ms = [l \in Loops |-> 0]
    /\ attempt = [l \in Loops |-> "none"]
    /\ ping_handle = [l \in Loops |-> FALSE]
    /\ nwait = [l \in Loops |-> 0]
    /\ stream_log = [l \in Loops |-> "fresh"]
    /\ reset_hit = [l \in Loops |-> FALSE]
    /\ stopped_in_wait = [l \in Loops |-> FALSE]
    /\ bracket = [l \in Loops |-> "out"]
    /\ ws_queue = <<>>
    /\ ws_rx = Some("ws_rx")
    /\ toast_rx = Some("toast_rx")
    /\ ws_consumers = 0
    /\ toast_consumers = 0
    /\ manifest = None
    /\ connection = [st |-> "Disconnected"]
    /\ rw_writer = 0
    /\ rw_readers = {}
    /\ tpc = [t \in Threads |-> "idle"]
    /\ targ = [t \in Threads |-> None]
    /\ tbuf = [t \in Threads |-> None]
    /\ last_set = None
    /\ ws_url = [l \in Loops |-> None]
    /\ probes_sent = [l \in Loops |-> 0]
    /\ settings = DefaultSettings
    /\ saved = None
    /\ client = ClientOf(settings.server_url, settings.bearer_token)
    /\ calls = [c \in Calls |-> IdleCall]
    /\ win = "new"
    /\ toast_queue = <<>>
    /\ last_event = None
    /\ status_label = [text |-> "Disconnected", css |-> "status-gone"]
    /\ server = 1
    /\ sent_events = <<>>

\* the program as constructed; no function is under check on its own
Init ==
    /\ InitProgram
    /\ input = None
    /\ output = None

(***************************************************************************)
(* WsManager (api/websocket.rs)                                            *)
(***************************************************************************)
\* a loop that was spawned and has not reached the end of its task
Live(l) == pc[l] \notin {"unborn", "done"}
LiveLoops == {l \in Loops : Live(l)}

\* tx.send(ev) on the unbounded channel, for each event of evs in order
Send(evs) ==
    /\ Len(ws_queue) + Len(evs) <= MaxQueue
    /\ ws_queue' = ws_queue \o evs

\* the events handle_message sends for the frames of an open stream
FrameEvents == {"ManifestUpdated", "AgentStatusChanged", "TerminalOutput", "Error"}

\* where the events of a loop stand after one more: "out" before Connected
\* and after Disconnected, "in" between the two, "bad" once an event came
\* out of place
BracketStep(b, e) ==
    CASE b = "out" /\ e.ev = "Connected" -> "in"
      [] b = "out" /\ e.ev = "Error"
             /\ e.msg \in {"Connection failed: " \o c : c \in ConnectErrors} -> "out"
      [] b = "in" /\ e.ev \in FrameEvents -> "in"
      [] b = "in" /\ e.ev = "Disconnected" -> "out"
      [] OTHER -> "bad"

RECURSIVE BracketAfter(_, _)
BracketAfter(b, evs) ==
    IF evs = <<>> THEN b
    ELSE BracketAfter(BracketStep(b, Head(evs)), Tail(evs))

\* loop l sends the events of evs (tx.send(..).await, websocket.rs:112, :156,
\* :160 and handle_message)
Emit(l, evs) ==
    /\ Send(evs)
    /\ bracket' = [bracket EXCEPT ![l] = BracketAfter(@, evs)]

\* faulty variant: the delay doubles without the ceiling
NextBackoffNoCeiling(b) == b * 2

\* faulty variant: the delay grows by the floor
NextBackoffLinear(b) == Min(b + FloorMs, max_backoff_ms)

\* websocket.rs:171, `backoff_ms = (backoff_ms * 2).min(max_backoff_ms)`
NextBackoff(b) == Min(b * 2, max_backoff_ms)

\* the largest delay a loop holds
MaxDelay == CHOOSE d \in {backoff_ms[l] : l \in Loops} :
                \A l \in Loops : backoff_ms[l] <= d

\* faulty variant: the new task starts from the delay the loops had reached
StartLoopKeepsDelay ==
    /\ spawned < MaxLoops
    /\ running' = TRUE
    /\ spawned' = spawned + 1
    /\ pc' = [pc EXCEPT ![spawned + 1] = "top"]
    /\ backoff_ms' = [backoff_ms EXCEPT ![spawned + 1] =
                          IF MaxDelay > FloorMs THEN MaxDelay ELSE FloorMs]
    /\ ws_url' = [ws_url EXCEPT ![spawned + 1] = Some(Target(settings))]
    /\ stopped_in_wait' = [l \in Loops |-> FALSE]
    /\ UNCHANGED <<attempt, ping_handle, probes_sent, nwait, stream_log, bracket, reset_hit>>

\* WsManager::connect (websocket.rs:81-176): store the flag, spawn the task
\* with its fresh locals
StartLoop ==
    /\ spawned < MaxLoops
    /\ running' = TRUE
    /\ spawned' = spawned + 1
    /\ pc' = [pc EXCEPT ![spawned + 1] = "top"]
    /\ backoff_ms' = [backoff_ms EXCEPT ![spawned + 1] = FloorMs]
    /\ ws_url' = [ws_url EXCEPT ![spawned + 1] = Some(Target(settings))]
    /\ stopped_in_wait' = [l \in Loops |-> FALSE]
    /\ UNCHANGED <<attempt, ping_handle, probes_sent, nwait, stream_log, bracket, reset_hit>>

\* MainWindow::start (window.rs:177-203) has run setup_event_loops: the manager
\* is used only after it
Started == ws_consumers > 0

\* websocket.rs:179, `self.running.store(false)`
StoreStop ==
    /\ running' = FALSE
    /\ stopped_in_wait' =
           [l \in Loops |-> stopped_in_wait[l] \/ pc[l] = "sleeping"]

\* WsManager::disconnect (websocket.rs:178-180), called on its own
Disconnect ==
    /\ ui = "idle"
    /\ Started
    /\ StoreStop
    /\ UNCHANGED <<spawned, ui, ws_url, pc, backoff_ms, attempt, ping_handle, probes_sent, nwait,
                   stream_log, bracket, reset_hit, ws_queue, chanVars, fnVars, server, sent_events, last_event, status_label, appVars, stateVars>>

\* Services::reconnect_ws (state.rs:157-160): ws.disconnect()
ReconnectWsStop(cap) ==
    /\ ui = "idle"
    /\ Started
    /\ spawned < cap
    /\ StoreStop
    /\ ui' = "reconnect_ws"
    /\ UNCHANGED <<spawned, ws_url, pc, backoff_ms, attempt, ping_handle, probes_sent, nwait,
                   stream_log, bracket, reset_hit, ws_queue, chanVars, fnVars, server, sent_events, last_event, status_label, appVars, stateVars>>

\* Services::reconnect_ws (state.rs:161-166): ws.connect(..)
ReconnectWsStart ==
    /\ ui = "reconnect_ws"
    /\ StartLoop
    /\ ui' = "idle"
    /\ UNCHANGED <<ws_queue, chanVars, fnVars, server, sent_events, last_event, status_label, appVars, stateVars>>

\* the task returns (websocket.rs:174): its locals are gone
TaskEnds(l) ==
    /\ pc' = [pc EXCEPT ![l] = "done"]
    /\ backoff_ms' = [backoff_ms EXCEPT ![l] = 0]
    /\ attempt' = [attempt EXCEPT ![l] = "none"]
    /\ nwait' = [nwait EXCEPT ![l] = 0]
    /\ reset_hit' = [reset_hit EXCEPT ![l] = FALSE]

\* faulty variant: the loop head does not look at the flag
LoopTopNoCheck(l) ==
    /\ pc[l] = "top"
    /\ pc' = [pc EXCEPT ![l] = "connecting"]
    /\ UNCHANGED <<backoff_ms, attempt, nwait, reset_hit>>
    /\ UNCHANGED <<running, spawned, ui, ws_url, ping_handle, probes_sent, stream_log, bracket, stopped_in_wait,
                   ws_queue, chanVars, fnVars, server, sent_events, last_event, status_label, appVars, stateVars>>

\* websocket.rs:100, `while running.load()`: start an attempt or leave
LoopTop(l) ==
    /\ pc[l] = "top"
    /\ IF running
       THEN /\ pc' = [pc EXCEPT ![l] = "connecting"]
            /\ UNCHANGED <<backoff_ms, attempt, nwait, reset_hit>>
       ELSE TaskEnds(l)
    /\ UNCHANGED <<running, spawned, ui, ws_url, ping_handle, probes_sent, stream_log, bracket, stopped_in_wait,
                   ws_queue, chanVars, fnVars, server, sent_events, last_event, status_label, appVars, stateVars>>

\* faulty variant: a successful open leaves the delay as it is
ConnectOkNoReset(l) ==
    /\ pc[l] = "connecting"
    /\ reset_hit' = [reset_hit EXCEPT ![l] = backoff_ms[l] > FloorMs]
    /\ nwait' = [nwait EXCEPT ![l] = 0]
    /\ Emit(l, <<EvConnected>>)
    /\ ping_handle' = [ping_handle EXCEPT ![l] = TRUE]
    /\ attempt' = [attempt EXCEPT ![l] = "open"]
    /\ pc' = [pc EXCEPT ![l] = "reading"]
    /\ UNCHANGED <<running, spawned, ui, ws_url, probes_sent, backoff_ms, stream_log,
                   stopped_in_wait,
                   chanVars, fnVars, server, sent_events, last_event, status_label, appVars, stateVars>>

\* websocket.rs:109-128: connect_async returns Ok
ConnectOk(l) ==
    /\ pc[l] = "connecting"
    /\ reset_hit' = [reset_hit EXCEPT ![l] = backoff_ms[l] > FloorMs]
    /\ backoff_ms' = [backoff_ms EXCEPT ![l] = FloorMs]
    /\ nwait' = [nwait EXCEPT ![l] = 0]
    /\ Emit(l, <<EvConnected>>)
    /\ ping_handle' = [ping_handle EXCEPT ![l] = TRUE]
    /\ attempt' = [attempt EXCEPT ![l] = "open"]
    /\ pc' = [pc EXCEPT ![l] = "reading"]
    /\ UNCHANGED <<running, spawned, ui, ws_url, probes_sent, stream_log,
                   stopped_in_wait, chanVars, fnVars, server, sent_events, last_event, status_label, appVars,
                   stateVars>>

\* websocket.rs:158-161: connect_async returns Err(e)
ConnectFail(l, e) ==
    /\ pc[l] = "connecting"
    /\ Emit(l, <<EvError("Connection failed: " \o e)>>)
    /\ attempt' = [attempt EXCEPT ![l] = "failed"]
    /\ pc' = [pc EXCEPT ![l] = "after"]
    /\ UNCHANGED <<running, spawned, ui, ws_url, backoff_ms, ping_handle, probes_sent, nwait,
                   stream_log, reset_hit, stopped_in_wait, chanVars, fnVars, server, sent_events, last_event, status_label, appVars, stateVars>>

\* faulty variant: a text frame that does not decode ends the read loop
ReadOutcomeBadTextBreaks(msg, run) ==
    IF msg.kind = "End" THEN "closed"
    ELSE IF ~run THEN "stopped"
    ELSE CASE msg.kind = "Close" -> "closed"
           [] msg.kind = "Err" -> "errored"
           [] msg.kind = "Text" /\ ~Decodes(msg.text) -> "errored"
           [] OTHER -> "open"

\* how the read loop goes on after one item of the stream (websocket.rs:130-153),
\* run being the flag as loaded at line 131: "open" stays in the loop
ReadOutcome(msg, run) ==
    IF msg.kind = "End" THEN "closed"
    ELSE IF ~run THEN "stopped"
    ELSE CASE msg.kind = "Close" -> "closed"
           [] msg.kind = "Err" -> "errored"
           [] OTHER -> "open"

\* the events one item of the stream makes the read loop forward
\* (websocket.rs:131-139)
Forwarded(msg, run) ==
    IF msg.kind = "Text" /\ run THEN HandleMessage(msg.text) ELSE <<>>

\* faulty variant: a stream ended by a transport error reports the error instead
StreamEndEventsErrorOnErr(out) ==
    IF out = "errored" THEN <<EvError("WebSocket error")>> ELSE <<EvDisconnected>>

\* faulty variant: a read loop left because the flag is clear sends nothing
StreamEndEventsSilentStop(out) ==
    IF out = "stopped" THEN <<>> ELSE <<EvDisconnected>>

\* websocket.rs:155-156: what is sent once the read loop is left, however
StreamEndEvents(out) == <<EvDisconnected>>

\* the history of decode failures on the open stream
NextStreamLog(log, msg, run) ==
    IF msg.kind # "Text" \/ ~run THEN log
    ELSE IF ~Decodes(msg.text) THEN "dropped"
    ELSE IF log = "dropped" /\ HandleMessage(msg.text) # <<>> THEN "recovered"
    ELSE log

\* faulty variant: the keepalive task is left running
AbortLeavesRunning(alive) == alive

\* websocket.rs:155, `ping_handle.abort()`: the keepalive task is gone
Abort(alive) == FALSE

\* websocket.rs:130-156: read.next() yields msg (End: None)
RecvFrame(l, msg) ==
    /\ pc[l] = "reading"
    /\ LET out == ReadOutcome(msg, running) IN
         IF out = "open"
         THEN /\ Emit(l, Forwarded(msg, running))
              /\ stream_log' =
                     [stream_log EXCEPT ![l] = NextStreamLog(@, msg, running)]
              /\ UNCHANGED <<pc, attempt, ping_handle>>
         ELSE /\ Emit(l, StreamEndEvents(out))
              /\ ping_handle' = [ping_handle EXCEPT ![l] = Abort(@)]
              /\ attempt' = [attempt EXCEPT ![l] = out]
              /\ stream_log' = [stream_log EXCEPT ![l] = "fresh"]
              /\ pc' = [pc EXCEPT ![l] = "after"]
    /\ UNCHANGED <<running, spawned, ui, ws_url, probes_sent, backoff_ms, nwait, reset_hit,
                   stopped_in_wait, chanVars, fnVars, server, sent_events, last_event, status_label, appVars, stateVars>>

\* faulty variant: the loop gives up after its third consecutive wait
AfterCheckGivesUp(l) ==
    /\ pc[l] = "after"
    /\ IF running /\ nwait[l] < 3
       THEN /\ pc' = [pc EXCEPT ![l] = "sleeping"]
            /\ nwait' = [nwait EXCEPT ![l] = Min(@ + 1, MaxWaits)]
            /\ UNCHANGED <<backoff_ms, attempt, reset_hit>>
       ELSE TaskEnds(l)
    /\ UNCHANGED <<running, spawned, ui, ws_url, ping_handle, probes_sent, stream_log, bracket,
                   stopped_in_wait, ws_queue, chanVars, fnVars, server, sent_events, last_event, status_label, appVars, stateVars>>

\* websocket.rs:164-170: leave if the flag is clear, else start the wait
AfterCheck(l) ==
    /\ pc[l] = "after"
    /\ IF running
       THEN /\ pc' = [pc EXCEPT ![l] = "sleeping"]
            /\ nwait' = [nwait EXCEPT ![l] = Min(@ + 1, MaxWaits)]
            /\ UNCHANGED <<backoff_ms, attempt, reset_hit>>
       ELSE TaskEnds(l)
    /\ UNCHANGED <<running, spawned, ui, ws_url, ping_handle, probes_sent, stream_log, bracket, stopped_in_wait,
                   ws_queue, chanVars, fnVars, server, sent_events, last_event, status_label, appVars, stateVars>>

\* websocket.rs:170-172: the sleep of backoff_ms ends, the delay doubles
SleepDone(l) ==
    /\ pc[l] = "sleeping"
    /\ backoff_ms' = [backoff_ms EXCEPT ![l] = NextBackoff(@)]
    /\ attempt' = [attempt EXCEPT ![l] = "none"]
    /\ reset_hit' = [reset_hit EXCEPT ![l] = FALSE]
    /\ pc' = [pc EXCEPT ![l] = "top"]
    /\ UNCHANGED <<running, spawned, ui, ws_url, ping_handle, probes_sent, nwait, stream_log, bracket,
                   stopped_in_wait, ws_queue, chanVars, fnVars, server, sent_events, last_event, status_label, appVars, stateVars>>

\* websocket.rs:119-128: the interval of the keepalive task ticks; the task
\* ends if the flag is clear and goes round otherwise; it writes nothing
PingTick(l) ==
    /\ ping_handle[l]
    /\ ping_handle' = [ping_handle EXCEPT ![l] = running]
    /\ probes_sent' = probes_sent
    /\ UNCHANGED <<running, spawned, ui, ws_url, pc, backoff_ms, attempt, nwait,
                   stream_log, bracket, reset_hit, stopped_in_wait, ws_queue, chanVars, fnVars, server, sent_events, last_event, status_label,
                   appVars, stateVars>>

\* the steps of loop l the runtime takes by itself
LoopStep(l) ==
    \/ LoopTop(l)
    \/ ConnectOk(l)
    \/ \E e \in ConnectErrors : ConnectFail(l, e)
    \/ AfterCheck(l)
    \/ SleepDone(l)

(***************************************************************************)
(* Services (state.rs) and MainWindow::setup_event_loops (ui/window.rs)    *)
(***************************************************************************)
\* faulty variant: the receiver is handed out and kept
TakeKeeps(cell) == [ret |-> cell, cell |-> cell]

\* Option::take under the write lock (state.rs:147, :152)
Take(cell) == [ret |-> cell, cell |-> None]

\* Services::take_ws_rx (state.rs:146-148)
take_ws_rx == Take(ws_rx)

\* Services::take_toast_rx (state.rs:151-153)
take_toast_rx == Take(toast_rx)

\* the body of setup_event_loops (window.rs:214-288): each receiver that is
\* still there is taken and a task draining it is spawned
TakeReceivers ==
    /\ ws_rx' = take_ws_rx.cell
    /\ ws_consumers' = IF take_ws_rx.ret.some THEN ws_consumers + 1 ELSE ws_consumers
    /\ toast_rx' = take_toast_rx.cell
    /\ toast_consumers' =
           IF take_toast_rx.ret.some THEN toast_consumers + 1 ELSE toast_consumers

\* MainWindow::setup_event_loops (window.rs:207-289)
SetupEventLoops ==
    /\ ui = "idle"
    /\ TakeReceivers
    /\ UNCHANGED <<fnVars, server, sent_events, last_event, status_label>>
    /\ UNCHANGED <<mgrVars, ws_queue, stateVars, appVars>>

\* AppState::set_connection_state per event (window.rs:222-239, :260-268)
ConnectionAfter(event, conn) ==
    CASE event.ev = "Connected" -> [st |-> "Connected"]
      [] event.ev = "Disconnected" -> [st |-> "Reconnecting"]
      [] event.ev = "Error" -> [st |-> "Error", msg |-> event.msg]
      [] OTHER -> conn

\* the worktree maps of two manifests merged, the entries of b winning
MergedWorktrees(a, b) ==
    [w \in DOMAIN a \cup DOMAIN b |-> IF w \in DOMAIN b THEN b[w] ELSE a[w]]

\* faulty variant: the update is merged into the manifest held before
ManifestAfterMerge(event, mf) ==
    IF event.ev # "ManifestUpdated" THEN mf
    ELSE IF ~mf.some THEN Some(event.manifest)
    ELSE Some([event.manifest EXCEPT
                  !.worktrees = MergedWorktrees(mf.val.worktrees, @)])

\* faulty variant: a status event edits the agent's worktree in the stored
\* manifest
ManifestAfterStatusEdit(event, mf) ==
    IF event.ev = "ManifestUpdated" THEN Some(event.manifest)
    ELSE IF event.ev = "AgentStatusChanged" /\ mf.some
    THEN Some([mf.val EXCEPT
                  !.worktrees =
                      MergedWorktrees(@, [w \in {event.worktree_id} |->
                                             {event.agent_id}])])
    ELSE mf

\* AppState::set_manifest per event (window.rs:240-244)
ManifestAfter(event, mf) ==
    IF event.ev = "ManifestUpdated" THEN Some(event.manifest) ELSE mf

\* update_status_ui (window.rs:350-356) with ConnectionState::label and
\* css_class (state.rs:18-37): the text and the class the label is given
update_status_ui(state) ==
    [text |-> CASE state.st = "Disconnected" -> "Disconnected"
                [] state.st = "Connecting" -> "Connecting..."
                [] state.st = "Connected" -> "Connected"
                [] state.st = "Reconnecting" -> "Reconnecting..."
                [] state.st = "Error" -> state.msg,
     css |-> CASE state.st = "Connected" -> "status-running"
               [] state.st \in {"Connecting", "Reconnecting"} -> "status-idle"
               [] state.st = "Disconnected" -> "status-gone"
               [] state.st = "Error" -> "status-failed"]

\* the label after the consumer has applied one event (window.rs:226-229,
\* :235-238, :264-267): shown anew from connection_state() for the three
\* lifecycle events
LabelAfter(event, conn, label) ==
    IF event.ev \in {"Connected", "Disconnected", "Error"}
    THEN update_status_ui(ConnectionAfter(event, conn)) ELSE label

\* the events that tell of the life of the stream
LifecycleEvents == {"Connected", "Disconnected", "Error"}

\* the last lifecycle event applied, after one more event
LifecycleAfter(event, last) ==
    IF event.ev \in LifecycleEvents THEN Some(event) ELSE last

\* faulty variant: the consumer task ends once it has applied a failure of
\* the stream
ConsumeEventAbortsOnFailure ==
    /\ ws_consumers > 0
    /\ ws_queue # <<>>
    /\ connection' = ConnectionAfter(Head(ws_queue), connection)
    /\ manifest' = ManifestAfter(Head(ws_queue), manifest)
    /\ last_event' = LifecycleAfter(Head(ws_queue), last_event)
    /\ status_label' = LabelAfter(Head(ws_queue), connection, status_label)
    /\ ws_queue' = Tail(ws_queue)
    /\ ws_consumers' = IF Head(ws_queue).ev \in {"Error", "Disconnected"}
                       THEN ws_consumers - 1 ELSE ws_consumers
    /\ UNCHANGED <<mgrVars, ws_rx, toast_rx, toast_consumers, fnVars, server, sent_events, appVars,
                   lockVars>>

\* faulty variant: the consumer takes the newest event of the channel
ConsumeEventTakesNewest ==
    /\ ws_consumers > 0
    /\ ws_queue # <<>>
    /\ LET ev == ws_queue[Len(ws_queue)] IN
         /\ connection' = ConnectionAfter(ev, connection)
         /\ manifest' = ManifestAfter(ev, manifest)
         /\ last_event' = LifecycleAfter(ev, last_event)
         /\ status_label' = LabelAfter(ev, connection, status_label)
    /\ ws_queue' = SubSeq(ws_queue, 1, Len(ws_queue) - 1)
    /\ UNCHANGED <<mgrVars, chanVars, fnVars, server, sent_events, appVars, lockVars>>

\* the consumer task takes one event (window.rs:219-271)
ConsumeEvent ==
    /\ ws_consumers > 0
    /\ ws_queue # <<>>
    /\ connection' = ConnectionAfter(Head(ws_queue), connection)
    /\ manifest' = ManifestAfter(Head(ws_queue), manifest)
    /\ last_event' = LifecycleAfter(Head(ws_queue), last_event)
    /\ status_label' = LabelAfter(Head(ws_queue), connection, status_label)
    /\ ws_queue' = Tail(ws_queue)
    /\ UNCHANGED <<mgrVars, chanVars, fnVars, server, sent_events, appVars, lockVars>>

\* one call of connect: a single connection loop and its consumer
Next ==
    \/ Disconnect
    \/ ReconnectWsStop(MaxConnects)
    \/ ReconnectWsStart
    \/ \E l \in Loops : LoopTop(l)
    \/ \E l \in Loops : ConnectOk(l)
    \/ \E l \in Loops, e \in ConnectErrors : ConnectFail(l, e)
    \/ \E l \in Loops, msg \in Messages : RecvFrame(l, msg)
    \/ \E l \in Loops : AfterCheck(l)
    \/ \E l \in Loops : SleepDone(l)
    \/ \E l \in Loops : PingTick(l)
    \/ SetupEventLoops
    \/ ConsumeEvent

Spec == Init /\ [][Next]_vars

\* reconnect_ws called again while earlier loops may still run
NextReconnect ==
    \/ Disconnect
    \/ ReconnectWsStop(MaxLoops)
    \/ ReconnectWsStart
    \/ \E l \in Loops : LoopTop(l)
    \/ \E l \in Loops : ConnectOk(l)
    \/ \E l \in Loops, e \in ConnectErrors : ConnectFail(l, e)
    \/ \E l \in Loops, msg \in Messages : RecvFrame(l, msg)
    \/ \E l \in Loops : AfterCheck(l)
    \/ \E l \in Loops : SleepDone(l)
    \/ \E l \in Loops : PingTick(l)
    \/ SetupEventLoops
    \/ ConsumeEvent

SpecReconnect == Init /\ [][NextReconnect]_vars


\* the loop tasks and the consumer are scheduled; the server, the network and
\* the user are not obliged to act
FairSpec ==
    /\ Spec
    /\ \A l \in Loops : WF_vars(LoopStep(l))
    /\ WF_vars(ConsumeEvent)

(***************************************************************************)
(* Toasts (state.rs:111-116, :170-183; window.rs:274-288)                  *)
(***************************************************************************)
ToastMessage(text, is_error) == [text |-> text, is_error |-> is_error]

\* faulty variant: a toast sent before the sink has the receiver is dropped
SendToastDropsUnclaimed(msg) ==
    /\ Len(toast_queue) < MaxToasts
    /\ toast_queue' = IF toast_consumers = 0 THEN toast_queue
                      ELSE Append(toast_queue, msg)

\* toast_tx.try_send(msg) on the unbounded channel
SendToast(msg) ==
    /\ Len(toast_queue) < MaxToasts
    /\ toast_queue' = Append(toast_queue, msg)

\* the texts components hand to Services::toast and Services::toast_error
ToastTexts == {"Reconnecting...", "Connection failed", "Saved", "Copied"}

\* Services::toast (state.rs:170-175), callable once Services::new has run
toast(text) ==
    /\ SendToast(ToastMessage(text, FALSE))
    /\ UNCHANGED <<mgrVars, ws_queue, chanVars, fnVars, server, sent_events, last_event, status_label, stateVars,
                   settings, saved, client, calls, win>>

\* Services::toast_error (state.rs:178-183)
toast_error(text) ==
    /\ SendToast(ToastMessage(text, TRUE))
    /\ UNCHANGED <<mgrVars, ws_queue, chanVars, fnVars, server, sent_events, last_event, status_label, stateVars,
                   settings, saved, client, calls, win>>

\* the sink task takes one toast and shows it (window.rs:277-287)
ToastSink ==
    /\ toast_consumers > 0
    /\ toast_queue # <<>>
    /\ toast_queue' = Tail(toast_queue)
    /\ UNCHANGED <<mgrVars, ws_queue, chanVars, fnVars, server, sent_events, last_event, status_label, stateVars, settings, saved,
                   client, calls, win>>

(***************************************************************************)
(* PpgClient (api/client.rs) behind Services.client, an Arc<RwLock<..>>:   *)
(* every caller holds the read guard from before the request is built      *)
(* until the call has returned.                                            *)
(***************************************************************************)
\* the operations of the client: name, method, path (client.rs:167-240)
Op(name, method, path) == [name |-> name, method |-> method, path |-> path]
OpSpawn == Op("spawn", "POST", "/api/spawn")
OpKillAgent == Op("kill_agent", "POST", "/api/agents/ag-1/kill")
OpMergeWorktree == Op("merge_worktree", "POST", "/api/worktrees/wt-a/merge")
\* three operations on get (status, health and test_connection, which calls
\* health(), client.rs:173-178), two on post, one on post_no_body
Ops ==
    {Op("status", "GET", "/api/status"), Op("health", "GET", "/health"),
     Op("test_connection", "GET", "/health"),
     OpSpawn, OpKillAgent, OpMergeWorktree}

\* PpgClient::url (client.rs:113-115)
ClientUrl(cl, path) == [base |-> cl.base_url, path |-> path]

\* PpgClient::auth_header (client.rs:117-119)
AuthHeader(cl) == IF cl.token.some THEN Some("Bearer " \o cl.token.val) ELSE None

\* the request get / post / post_no_body build (client.rs:122-125, :140-143,
\* :154-157)
Request(cl, op) ==
    [method |-> op.method, url |-> ClientUrl(cl, op.path), auth |-> AuthHeader(cl)]

\* what may come of one request: it cannot be sent, or a response arrives
Unsent == [kind |-> "unsent"]
Response(status, body, decodes) ==
    [kind |-> "response", status |-> status, body |-> body, decodes |-> decodes]
Responses ==
    {Unsent, Response(200, "{..}", TRUE), Response(200, "<html>", FALSE),
     Response(500, "boom", FALSE)}

\* StatusCode::is_success
IsSuccess(status) == status >= 200 /\ status < 300

Ok(v) == [ok |-> TRUE, val |-> v]
Err(e) == [ok |-> FALSE, err |-> e]

\* the payload a decodable body of op carries: the manifest m for status,
\* a HealthResponse with the status m for health, some JSON for the others
Payload(op, m) ==
    CASE op = "status" -> m
      [] op \in {"health", "test_connection"} -> [status |-> m]
      [] OTHER -> "json"

\* faulty variant: a request that failed is sent once more
RequestsAfterRetry(sent, resp) ==
    IF resp.kind = "unsent" \/ ~IsSuccess(resp.status) THEN sent + 1 ELSE sent

\* the requests of a call after its response: none is added (client.rs:126-132)
RequestsAfter(sent, resp) == sent

\* faulty variant: the body is decoded before the status is looked at
CallResultDecodesFirst(call, resp, m) ==
    CASE resp.kind = "unsent" ->
             Err([context |-> "HTTP " \o call.request.method \o " failed"])
      [] resp.kind = "response" /\ ~resp.decodes ->
             Err([context |-> "Failed to parse JSON response"])
      [] resp.kind = "response" /\ resp.decodes /\ ~IsSuccess(resp.status) ->
             Err([context |-> "HTTP", status |-> resp.status, body |-> resp.body])
      [] OTHER -> Ok(Payload(call.op, m))

\* get / post / post_no_body after send() (client.rs:126-132, :144-150,
\* :158-164)
CallResult(call, resp, m) ==
    CASE resp.kind = "unsent" ->
             Err([context |-> "HTTP " \o call.request.method \o " failed"])
      [] resp.kind = "response" /\ ~IsSuccess(resp.status) ->
             Err([context |-> "HTTP", status |-> resp.status, body |-> resp.body])
      [] resp.kind = "response" /\ IsSuccess(resp.status) /\ ~resp.decodes ->
             Err([context |-> "Failed to parse JSON response"])
      [] OTHER -> Ok(Payload(call.op, m))

\* faulty variant: a failure of health() is passed on
TestConnectionPassesError(r) == IF r.ok THEN Ok(r.val.status = "ok") ELSE r

\* PpgClient::test_connection (client.rs:173-178): the result of health()
\* folded into a bool
TestConnection(r) == IF r.ok THEN Ok(r.val.status = "ok") ELSE Ok(FALSE)

\* what the operation of the call returns: the result of its get / post /
\* post_no_body, which test_connection folds and the others pass on
OpResult(call, resp, m) ==
    IF call.op = "test_connection"
    THEN TestConnection(CallResult(call, resp, m))
    ELSE CallResult(call, resp, m)

\* the calls holding the read guard of Services.client
InFlight == {c \in Calls : calls[c].st = "inflight"}

\* a handler spawns the task of a call on the runtime (e.g. sidebar.rs:214-218,
\* command_palette.rs:180-194, settings_dialog.rs:50-53)
CallSpawn(c, op) ==
    /\ ui = "idle"
    /\ win # "new"
    /\ calls[c].st = "idle"
    /\ calls' = [calls EXCEPT ![c] = [st |-> "spawned", op |-> op.name,
                                      origin |-> "command"]]
    /\ UNCHANGED <<mgrVars, ws_queue, chanVars, fnVars, server, sent_events, last_event, status_label, stateVars, settings, saved,
                   client, win, toast_queue>>

\* faulty variant: the request is built for the address the client was made with
RequestOfStale(cl, op) == Request(ClientOf(DefaultSettings.server_url, None), op)

\* the request a call that starts now issues
RequestOf(cl, op) == Request(cl, op)

\* the task runs: `client.read().unwrap().<op>(..)` takes the read guard,
\* builds the request and sends it (client.rs:121-126)
CallStart(c) ==
    /\ calls[c].st = "spawned"
    /\ ui # "update_connection"
    /\ \E op \in Ops :
         /\ op.name = calls[c].op
         /\ calls' = [calls EXCEPT ![c] =
                         [st |-> "inflight", op |-> op.name, origin |-> @.origin,
                          request |-> RequestOf(client, op), sent |-> 1]]
    /\ UNCHANGED <<mgrVars, ws_queue, chanVars, fnVars, server, sent_events, last_event, status_label, stateVars, settings, saved,
                   client, win, toast_queue>>

\* the call has returned: its result, the request and the guard dropped
Returned(c, resp, m) ==
    [st |-> "returned", op |-> calls[c].op, origin |-> calls[c].origin,
     sent |-> RequestsAfter(calls[c].sent, resp),
     result |-> OpResult(calls[c], resp, m)]

\* the request of a command call ends: the call returns to its task
Respond(c, resp) ==
    /\ calls[c].st = "inflight"
    /\ calls[c].origin = "command"
    /\ calls' = [calls EXCEPT ![c] =
                    Returned(c, resp,
                             IF calls[c].op \in {"health", "test_connection"}
                             THEN "ok" ELSE "json")]
    /\ UNCHANGED <<mgrVars, ws_queue, chanVars, fnVars, server, sent_events, last_event, status_label, stateVars, settings, saved,
                   client, win, toast_queue>>

\* the task of a command call is over
CallDone(c) ==
    /\ calls[c].st = "returned"
    /\ calls[c].origin = "command"
    /\ calls' = [calls EXCEPT ![c] = IdleCall]
    /\ UNCHANGED <<mgrVars, ws_queue, chanVars, fnVars, server, sent_events, last_event, status_label, stateVars, settings, saved,
                   client, win, toast_queue>>

(***************************************************************************)
(* Command handlers: the context menu of the sidebar (ui/sidebar.rs), the  *)
(* buttons of the worktree detail (ui/worktree_detail.rs) and the spawn    *)
(* button of the command palette (ui/command_palette.rs). Each spawns a    *)
(* task on the runtime that makes one call and looks at its result.        *)
(***************************************************************************)
Command(handler, op) == [handler |-> handler, op |-> op]
\* kill agent (sidebar.rs:326-348) and merge (sidebar.rs:236-264) of the
\* sidebar, merge of the worktree detail (worktree_detail.rs:114-129), spawn
\* of the command palette (command_palette.rs:167-202)
Commands ==
    {Command("sidebar", OpKillAgent), Command("sidebar", OpMergeWorktree),
     Command("worktree_detail", OpMergeWorktree),
     Command("command_palette", OpSpawn)}
Handlers == {cmd.handler : cmd \in Commands}

\* the handler runs on the main thread and spawns the task of the command
CommandActivate(c, cmd) ==
    /\ ui = "idle"
    /\ win # "new"
    /\ calls[c].st = "idle"
    /\ calls' = [calls EXCEPT ![c] = [st |-> "spawned", op |-> cmd.op.name,
                                      origin |-> cmd.handler]]
    /\ UNCHANGED <<mgrVars, ws_queue, chanVars, fnVars, server, sent_events, last_event, status_label, stateVars,
                   settings, saved, client, win, toast_queue>>

\* what the task of a command sends to the toast channel for the result of
\* its call: the sidebar a toast (sidebar.rs:218-231, :249-262, :334-347), the
\* worktree detail nothing (worktree_detail.rs:108, :126), the command
\* palette nothing, it writes to the log (command_palette.rs:194-201)
\* The texts of the sidebar's toasts, format!("Killed agent {}", id) and
\* format!("Kill failed: {}", e), are the tuples of their parts.
CommandToasts(handler, op, result) ==
    IF handler # "sidebar" THEN <<>>
    ELSE IF result.ok THEN <<ToastMessage(<<op, "done">>, FALSE)>>
    ELSE <<ToastMessage(<<op, "failed", result.err>>, TRUE)>>

\* the call of a command returns to its task; the task handles the result
\* and ends
CommandReturn(c, resp) ==
    /\ calls[c].st = "inflight"
    /\ calls[c].origin \in Handlers
    /\ LET ret == Returned(c, resp, "json")
           toasts == CommandToasts(calls[c].origin, calls[c].op, ret.result) IN
         /\ Len(toast_queue) + Len(toasts) <= MaxToasts
         /\ toast_queue' = toast_queue \o toasts
    /\ calls' = [calls EXCEPT ![c] = IdleCall]
    /\ UNCHANGED <<mgrVars, ws_queue, chanVars, fnVars, server, sent_events, last_event, status_label, stateVars,
                   settings, saved, client, win>>

(***************************************************************************)
(* SettingsDialog: the close request (settings_dialog.rs:117-163)          *)
(***************************************************************************)
\* AppSettings::save (settings.rs:83-91), its error dropped (state.rs:85):
\* the file after the call
Saved(cfg, written, file) == IF written THEN Some(cfg) ELSE file

\* settings_dialog.rs:133-139: update_settings stores and saves the fields;
\* the handler then asks for the write guard of the client
SettingsClose(cfg, written) ==
    /\ ui = "idle"
    /\ win # "new"
    /\ settings' = cfg
    /\ saved' = Saved(cfg, written, saved)
    /\ ui' = "update_connection"
    /\ UNCHANGED <<running, spawned, pc, backoff_ms, attempt, ping_handle, nwait,
                   stream_log, bracket, reset_hit, stopped_in_wait, ws_url, probes_sent,
                   ws_queue, chanVars, fnVars, server, sent_events, last_event, status_label, stateVars, client, calls, win,
                   toast_queue>>

\* settings_dialog.rs:142-146: client.write() is granted once no call holds
\* the read guard; update_connection (client.rs:108-111)
UpdateConnection ==
    /\ ui = "update_connection"
    /\ InFlight = {}
    /\ client' = ClientOf(settings.server_url, settings.bearer_token)
    /\ ui' = "idle"
    /\ UNCHANGED <<running, spawned, pc, backoff_ms, attempt, ping_handle, nwait,
                   stream_log, bracket, reset_hit, stopped_in_wait, ws_url, probes_sent,
                   ws_queue, chanVars, fnVars, server, sent_events, last_event, status_label, stateVars, settings, saved, calls, win,
                   toast_queue>>

(***************************************************************************)
(* MainWindow (ui/window.rs): start(), connect(), the reconnect action     *)
(***************************************************************************)
\* start() with a prerequisite missing (window.rs:196-201): the setup view
\* is shown and the event loops are set up
WindowStartSetup ==
    /\ ui = "idle"
    /\ win = "new"
    /\ win' = "setup"
    /\ TakeReceivers
    /\ UNCHANGED <<fnVars, server, sent_events, last_event, status_label>>
    /\ UNCHANGED <<mgrVars, ws_queue, stateVars, settings, saved, client, calls,
                   toast_queue>>

\* start() with the prerequisites met (window.rs:192-195) goes into connect()
\* (window.rs:293-308): setup_event_loops, Connecting, and reconnect_ws as
\* far as ws.disconnect()
WindowStartConnect ==
    /\ ui = "idle"
    /\ win = "new"
    /\ win' = "dashboard"
    /\ TakeReceivers
    /\ UNCHANGED <<fnVars, server, sent_events, last_event>>
    /\ connection' = [st |-> "Connecting"]
    /\ status_label' = update_status_ui(connection')
    /\ StoreStop
    /\ ui' = "connect"
    /\ UNCHANGED <<spawned, pc, backoff_ms, attempt, ping_handle, nwait,
                   stream_log, bracket, reset_hit, ws_url, probes_sent, ws_queue,
                   manifest, lockVars, settings, saved, client, calls,
                   toast_queue>>

\* a call slot that is free
FreeSlot == CHOOSE c \in Calls : calls[c].st = "idle"

\* connect() goes on (window.rs:308-317): ws.connect(..) inside reconnect_ws,
\* then the task of the initial status fetch is spawned
WindowConnectFetch ==
    /\ ui = "connect"
    /\ StartLoop
    /\ \E c \in Calls : calls[c].st = "idle"
    /\ calls' = [calls EXCEPT ![FreeSlot] =
                    [st |-> "spawned", op |-> "status", origin |-> "connect"]]
    /\ ui' = "idle"
    /\ UNCHANGED <<ws_queue, chanVars, fnVars, server, sent_events, last_event, status_label, stateVars, settings, saved, client, win,
                   toast_queue>>

\* the status request of connect() ends (window.rs:318-340): on Ok the
\* callback is queued for the main thread, on Err a toast is sent and the
\* callback only repaints the label
FetchRespond(c, resp, m) ==
    /\ calls[c].st = "inflight"
    /\ calls[c].origin = "connect"
    /\ LET ret == Returned(c, resp, m) IN
         /\ calls' = [calls EXCEPT ![c] = ret]
         /\ IF ret.result.ok
            THEN UNCHANGED toast_queue
            ELSE SendToast(ToastMessage("Connection failed", TRUE))
    /\ UNCHANGED <<mgrVars, ws_queue, chanVars, fnVars, server, sent_events, last_event, status_label, stateVars, settings, saved,
                   client, win>>

\* faulty variant: a failed fetch clears the manifest
FetchedManifestClearsOnError(call, mf) ==
    IF call.result.ok THEN Some(call.result.val) ELSE None

\* the manifest the callback of the fetch stores
FetchedManifest(call, mf) == IF call.result.ok THEN Some(call.result.val) ELSE mf


\* the label the callback of the fetch shows: Connected (window.rs:326), or
\* Error with format!("{}", e), the outermost message of the failure
\* (window.rs:330, :337)
FetchedLabel(call) ==
    IF call.result.ok THEN update_status_ui([st |-> "Connected"])
    ELSE update_status_ui([st |-> "Error", msg |-> call.result.err.context])

\* glib::idle_add_once callback of the fetch (window.rs:321-327, :336-338)
FetchCallback(c) ==
    /\ ui = "idle"
    /\ calls[c].st = "returned"
    /\ calls[c].origin = "connect"
    /\ manifest' = FetchedManifest(calls[c], manifest)
    /\ connection' = IF calls[c].result.ok THEN [st |-> "Connected"]
                     ELSE connection
    /\ status_label' = FetchedLabel(calls[c])
    /\ calls' = [calls EXCEPT ![c] = IdleCall]
    /\ UNCHANGED <<mgrVars, ws_queue, chanVars, fnVars, server, sent_events, last_event, lockVars, settings, saved,
                   client, win, toast_queue>>

\* the continue button of the setup view (window.rs:183-187): the dashboard
\* is shown, reconnect_ws runs as far as ws.disconnect()
SetupContinue(cap) ==
    /\ ui = "idle"
    /\ win = "setup"
    /\ spawned < cap
    /\ win' = "dashboard"
    /\ StoreStop
    /\ ui' = "reconnect_ws"
    /\ UNCHANGED <<spawned, pc, backoff_ms, attempt, ping_handle, nwait,
                   stream_log, bracket, reset_hit, ws_url, probes_sent, ws_queue,
                   chanVars, fnVars, server, sent_events, last_event, status_label, stateVars, settings, saved, client, calls,
                   toast_queue>>

\* the reconnect action (window.rs:150-152): Connecting, reconnect_ws as far
\* as ws.disconnect()
ReconnectAction(cap) ==
    /\ ui = "idle"
    /\ win # "new"
    /\ spawned < cap
    /\ connection' = [st |-> "Connecting"]
    /\ StoreStop
    /\ ui' = "reconnect_action"
    /\ UNCHANGED <<spawned, pc, backoff_ms, attempt, ping_handle, nwait,
                   stream_log, bracket, reset_hit, ws_url, probes_sent, ws_queue,
                   chanVars, fnVars, server, sent_events, last_event, status_label, manifest, lockVars, appVars>>

\* the reconnect action goes on (window.rs:152-153): ws.connect(..), the toast
ReconnectActionRest ==
    /\ ui = "reconnect_action"
    /\ StartLoop
    /\ SendToast(ToastMessage("Reconnecting...", FALSE))
    /\ ui' = "idle"
    /\ UNCHANGED <<ws_queue, chanVars, fnVars, server, sent_events, last_event, status_label, stateVars, settings, saved, client,
                   calls, win>>

NextClient ==
    \/ WindowStartSetup
    \/ \E c \in Calls, op \in Ops : CallSpawn(c, op)
    \/ \E c \in Calls : CallStart(c)
    \/ \E c \in Calls, resp \in Responses : Respond(c, resp)
    \/ \E c \in Calls : CallDone(c)
    \/ \E cfg \in Configs, written \in BOOLEAN : SettingsClose(cfg, written)
    \/ UpdateConnection

\* the Transport Client, its callers and the settings dialog
SpecClient == Init /\ [][NextClient]_vars

\* the whole client: window, settings dialog, manager, consumer and sink
NextApp ==
    \/ WindowStartSetup
    \/ WindowStartConnect
    \/ WindowConnectFetch
    \/ SetupContinue(MaxConnects)
    \/ ReconnectWsStart
    \/ ReconnectAction(MaxConnects)
    \/ ReconnectActionRest
    \/ \E l \in Loops : LoopTop(l)
    \/ \E l \in Loops : ConnectOk(l)
    \/ \E l \in Loops, e \in ConnectErrors : ConnectFail(l, e)
    \/ \E l \in Loops, msg \in Messages : RecvFrame(l, msg)
    \/ \E l \in Loops : AfterCheck(l)
    \/ \E l \in Loops : SleepDone(l)
    \/ \E l \in Loops : PingTick(l)
    \/ ConsumeEvent
    \/ ToastSink
    \/ \E c \in Calls : CallStart(c)
    \/ \E c \in Calls, resp \in Responses, m \in Manifests : FetchRespond(c, resp, m)
    \/ \E c \in Calls : FetchCallback(c)
    \/ \E cfg \in Configs, written \in BOOLEAN : SettingsClose(cfg, written)
    \/ UpdateConnection

SpecApp == Init /\ [][NextApp]_vars

\* the toast channel, its senders and its sink; start() shows the setup view
NextToast ==
    \/ \E text \in ToastTexts : toast(text)
    \/ \E text \in ToastTexts : toast_error(text)
    \/ WindowStartSetup
    \/ SetupEventLoops
    \/ ToastSink

SpecToast == Init /\ [][NextToast]_vars

\* start() with the prerequisites met: connect(), its connection loop, the
\* initial status fetch, the consumer and the sink; the server sends
\* manifests, an error frame and a close
NextFetch ==
    \/ WindowStartConnect
    \/ WindowConnectFetch
    \/ Disconnect
    \/ \E l \in Loops : LoopTop(l)
    \/ \E l \in Loops : ConnectOk(l)
    \/ \E l \in Loops, e \in ConnectErrors : ConnectFail(l, e)
    \/ \E l \in Loops, m \in Manifests : RecvFrame(l, MsgText(TxtManifest(m)))
    \/ \E l \in Loops, msg \in {MsgText(TxtError), MsgClose} : RecvFrame(l, msg)
    \/ \E l \in Loops : AfterCheck(l)
    \/ \E l \in Loops : SleepDone(l)
    \/ ConsumeEvent
    \/ ToastSink
    \/ \E c \in Calls : CallStart(c)
    \/ \E c \in Calls, resp \in Responses, m \in Manifests : FetchRespond(c, resp, m)
    \/ \E c \in Calls : FetchCallback(c)

SpecFetch == Init /\ [][NextFetch]_vars

\* what a connection loop sends at once: Connected, Disconnected, or the
\* events handle_message makes of a text frame
ChannelSends ==
    ({<<EvConnected>>, <<EvDisconnected>>}
         \cup {HandleMessage(t) : t \in TextFrames}) \ {<<>>}

\* a loop sends evs into the channel (tx.send(..).await on the unbounded
\* channel of state.rs:131), whatever the consumer has taken so far
ChannelSend(evs) ==
    /\ Len(sent_events) + Len(evs) <= MaxSent
    /\ ws_queue' = ws_queue \o evs
    /\ sent_events' = sent_events \o evs
    /\ UNCHANGED <<mgrVars, chanVars, stateVars, appVars, fnVars, last_event,
                   status_label, server>>

\* the event channel on its own: the sends of a loop and the consumer
NextChannel ==
    \/ SetupEventLoops
    \/ \E evs \in ChannelSends : ChannelSend(evs)
    \/ ConsumeEvent

SpecChannel == Init /\ [][NextChannel]_vars

\* what the service may answer to the request of test_connection: no answer,
\* or a status code with a body that decodes as a HealthResponse or not
HealthAnswers ==
    {[resp |-> Unsent, status |-> "ok"]}
        \cup {[resp |-> Response(code, "{..}", d), status |-> st] :
                 code \in {200, 204, 301, 401, 404, 500, 503},
                 d \in BOOLEAN,
                 st \in {"ok", "degraded", "error", ""}}

\* a caller awaits test_connection (client.rs:173-178) and the service
\* answers with input
TestConnectionCall ==
    /\ input.some
    /\ output = None
    /\ LET op == CHOOSE o \in Ops : o.name = "test_connection"
           call == [op |-> op.name, request |-> RequestOf(client, op)] IN
         output' = Some(OpResult(call, input.val.resp, input.val.status))
    /\ UNCHANGED <<mgrVars, ws_queue, chanVars, stateVars, appVars, last_event,
                   status_label, input, server, sent_events>>

InitHealth ==
    /\ InitProgram
    /\ input \in {Some(a) : a \in HealthAnswers}
    /\ output = None

SpecHealth == InitHealth /\ [][TestConnectionCall]_vars

\* the n-th snapshot the remote service produced
Snapshot(n) == CHOOSE m \in Manifests : m.version = n

\* the remote service changes its state: a newer snapshot is what it sends
\* from now on
ServerUpdate ==
    /\ server < Cardinality(Manifests)
    /\ server' = server + 1
    /\ UNCHANGED <<mgrVars, ws_queue, chanVars, stateVars, appVars, fnVars,
                   last_event, status_label, sent_events>>

\* connect() against a service that answers the status request and feeds the
\* stream with the snapshot it holds at the time: the status fetch and the
\* ManifestUpdated events race (window.rs:240-244, :310-328)
NextRace ==
    \/ WindowStartConnect
    \/ WindowConnectFetch
    \/ ServerUpdate
    \/ \E l \in Loops : LoopTop(l)
    \/ \E l \in Loops : ConnectOk(l)
    \/ \E l \in Loops : RecvFrame(l, MsgText(TxtManifest(Snapshot(server))))
    \/ ConsumeEvent
    \/ ToastSink
    \/ \E c \in Calls : CallStart(c)
    \/ \E c \in Calls, resp \in Responses : FetchRespond(c, resp, Snapshot(server))
    \/ \E c \in Calls : FetchCallback(c)

SpecRace == Init /\ [][NextRace]_vars

\* the command handlers beside a connection loop started from the setup view
NextCommands ==
    \/ WindowStartSetup
    \/ SetupContinue(MaxConnects)
    \/ ReconnectWsStart
    \/ \E l \in Loops : LoopTop(l)
    \/ \E l \in Loops : ConnectOk(l)
    \/ \E l \in Loops, e \in ConnectErrors : ConnectFail(l, e)
    \/ \E l \in Loops : RecvFrame(l, MsgClose)
    \/ \E l \in Loops : AfterCheck(l)
    \/ \E l \in Loops : SleepDone(l)
    \/ ConsumeEvent
    \/ ToastSink
    \/ \E c \in Calls, cmd \in Commands : CommandActivate(c, cmd)
    \/ \E c \in Calls : CallStart(c)
    \/ \E c \in Calls, resp \in Responses : CommandReturn(c, resp)

SpecCommands == Init /\ [][NextCommands]_vars

(***************************************************************************)
(* AppState (state.rs:39-87): the manifest behind Arc<RwLock<..>>, with    *)
(* the lock and the member-wise copies of set_manifest and manifest        *)
(* spelled out.                                                            *)
(***************************************************************************)
\* faulty variant: a writer is admitted beside readers
CanWriteBesideReaders == rw_writer = 0

\* RwLock::write() is granted (state.rs:67)
CanWrite == rw_writer = 0 /\ rw_readers = {}

\* RwLock::read() is granted (state.rs:63)
CanRead == rw_writer = 0

\* the cell after the first member of m is stored over it
HalfStored(cell, m) ==
    Some([version |-> m.version,
          session_name |-> IF cell.some THEN cell.val.session_name ELSE "",
          worktrees |-> IF cell.some THEN cell.val.worktrees ELSE NoWorktrees])

\* AppState::set_manifest (state.rs:66-68): inner.write()
SetManifestLock(t, m) ==
    /\ tpc[t] = "idle"
    /\ CanWrite
    /\ rw_writer' = t
    /\ targ' = [targ EXCEPT ![t] = Some(m)]
    /\ tpc' = [tpc EXCEPT ![t] = "store"]
    /\ UNCHANGED <<rw_readers, tbuf, last_set, manifest, notState>>

\* AppState::set_manifest (state.rs:67): `.manifest = Some(manifest)`, first member
SetManifestStore(t) ==
    /\ tpc[t] = "store"
    /\ manifest' = HalfStored(manifest, targ[t].val)
    /\ tpc' = [tpc EXCEPT ![t] = "store_rest"]
    /\ UNCHANGED <<rw_writer, rw_readers, targ, tbuf, last_set, notState>>

\* AppState::set_manifest (state.rs:67-68): the rest is stored, the guard dropped
SetManifestUnlock(t) ==
    /\ tpc[t] = "store_rest"
    /\ manifest' = targ[t]
    /\ last_set' = targ[t]
    /\ rw_writer' = 0
    /\ targ' = [targ EXCEPT ![t] = None]
    /\ tpc' = [tpc EXCEPT ![t] = "idle"]
    /\ UNCHANGED <<rw_readers, tbuf, notState>>

\* AppState::manifest (state.rs:62-64): inner.read()
ManifestLock(t) ==
    /\ tpc[t] = "idle"
    /\ CanRead
    /\ rw_readers' = rw_readers \cup {t}
    /\ tpc' = [tpc EXCEPT ![t] = "clone"]
    /\ UNCHANGED <<rw_writer, targ, tbuf, last_set, manifest, notState>>

\* AppState::manifest (state.rs:63): `.manifest.clone()`, first member
ManifestClone(t) ==
    /\ tpc[t] = "clone"
    /\ tbuf' = [tbuf EXCEPT ![t] =
                   IF manifest.some
                   THEN Some([version |-> manifest.val.version,
                              session_name |-> "", worktrees |-> NoWorktrees])
                   ELSE None]
    /\ tpc' = [tpc EXCEPT ![t] = "clone_rest"]
    /\ UNCHANGED <<rw_writer, rw_readers, targ, last_set, manifest, notState>>

\* AppState::manifest (state.rs:63): the rest is cloned; tbuf is the result
ManifestCloneRest(t) ==
    /\ tpc[t] = "clone_rest"
    /\ tbuf' = [tbuf EXCEPT ![t] =
                   IF tbuf[t].some /\ manifest.some
                   THEN Some([version |-> tbuf[t].val.version,
                              session_name |-> manifest.val.session_name,
                              worktrees |-> manifest.val.worktrees])
                   ELSE tbuf[t]]
    /\ tpc' = [tpc EXCEPT ![t] = "return"]
    /\ UNCHANGED <<rw_writer, rw_readers, targ, last_set, manifest, notState>>

\* AppState::manifest (state.rs:64): the guard is dropped, the clone returned
ManifestReturn(t) ==
    /\ tpc[t] = "return"
    /\ rw_readers' = rw_readers \ {t}
    /\ tbuf' = [tbuf EXCEPT ![t] = None]
    /\ tpc' = [tpc EXCEPT ![t] = "idle"]
    /\ UNCHANGED <<rw_writer, targ, last_set, manifest, notState>>

\* AppState::update_settings (state.rs:82-84): inner.write(), f applied
UpdateSettingsLock(t, cfg) ==
    /\ tpc[t] = "idle"
    /\ CanWrite
    /\ rw_writer' = t
    /\ settings' = cfg
    /\ tpc' = [tpc EXCEPT ![t] = "save"]
    /\ UNCHANGED <<rw_readers, targ, tbuf, last_set, manifest, mgrVars, ws_queue,
                   chanVars, fnVars, server, sent_events, last_event, status_label, connection, saved, client, calls, win, toast_queue>>

\* AppState::update_settings (state.rs:85-86): settings.save() has written the
\* file or failed, the guard is dropped
UpdateSettingsSave(t, written) ==
    /\ tpc[t] = "save"
    /\ saved' = Saved(settings, written, saved)
    /\ rw_writer' = 0
    /\ tpc' = [tpc EXCEPT ![t] = "idle"]
    /\ UNCHANGED <<rw_readers, targ, tbuf, last_set, manifest, mgrVars, ws_queue,
                   chanVars, fnVars, server, sent_events, last_event, status_label, connection, settings, client, calls, win,
                   toast_queue>>

NextState ==
    \/ \E t \in Threads, cfg \in Configs : UpdateSettingsLock(t, cfg)
    \/ \E t \in Threads, written \in BOOLEAN : UpdateSettingsSave(t, written)
    \/ \E t \in Threads, m \in Manifests : SetManifestLock(t, m)
    \/ \E t \in Threads : SetManifestStore(t)
    \/ \E t \in Threads : SetManifestUnlock(t)
    \/ \E t \in Threads : ManifestLock(t)
    \/ \E t \in Threads : ManifestClone(t)
    \/ \E t \in Threads : ManifestCloneRest(t)
    \/ \E t \in Threads : ManifestReturn(t)

SpecState == Init /\ [][NextState]_vars


(***************************************************************************)
(* HomeDashboard::update_manifest (ui/home_dashboard.rs:128-152): the      *)
(* counts the dashboard derives from a manifest, checked on their own.     *)
(***************************************************************************)
\* models/manifest.rs:65-77, AgentEntry: status and exit_code (Option<i32>)
AgentEntry(status, exit_code) == [status |-> status, exit_code |-> exit_code]
AgentEntries ==
    {AgentEntry("running", None), AgentEntry("idle", None),
     AgentEntry("exited", Some(0)), AgentEntry("exited", Some(1)),
     AgentEntry("exited", None), AgentEntry("gone", None),
     AgentEntry("gone", Some(1))}

\* models/manifest.rs:79-93, WorktreeEntry: the map of its agents
WorktreeEntry(agents) == [agents |-> agents]

\* home_dashboard.rs:129-133: every agent of every worktree
all_agents(m) ==
    UNION {{<<w, a>> : a \in DOMAIN m.worktrees[w].agents} :
              w \in DOMAIN m.worktrees}

\* the entry of one of them
AgentOf(m, p) == m.worktrees[p[1]].agents[p[2]]

\* faulty variant: every exited agent counts as failed
IsFailedAnyExit(a) == a.status = "exited"

\* home_dashboard.rs:142
IsFailed(a) == a.status = "exited" /\ a.exit_code # Some(0)

\* Manifest::count_agents_by_status (manifest.rs:108-114)
count_agents_by_status(m, status) ==
    Cardinality({p \in all_agents(m) : AgentOf(m, p).status = status})

\* HomeDashboard::update_manifest (home_dashboard.rs:128-152): the numbers
\* it puts on the labels
update_manifest(m) ==
    LET agents == all_agents(m) IN
    [running |->
         Cardinality({p \in agents : AgentOf(m, p).status = "running"}),
     completed |->
         Cardinality({p \in agents :
                         /\ AgentOf(m, p).status = "exited"
                         /\ AgentOf(m, p).exit_code = Some(0)}),
     failed |-> Cardinality({p \in agents : IsFailed(AgentOf(m, p))}),
     killed |-> Cardinality({p \in agents : AgentOf(m, p).status = "gone"}),
     worktree_count |-> Cardinality(DOMAIN m.worktrees)]

\* the consumer hands the manifest to the dashboard (window.rs:243)
UpdateManifest ==
    /\ input.some
    /\ output = None
    /\ output' = Some(update_manifest(input.val))
    /\ UNCHANGED <<mgrVars, ws_queue, chanVars, stateVars, appVars, last_event, status_label,
                   input, server, sent_events>>

InitDashboard ==
    /\ InitProgram
    /\ LET WorktreeEntries ==
               {WorktreeEntry(f) :
                   f \in UNION {[A -> AgentEntries] :
                                   A \in SUBSET (1..MaxAgentEntries)}} IN
         input \in {Some(Manifest(1, "s1", w)) :
                       w \in UNION {[W -> WorktreeEntries] :
                                       W \in SUBSET (1..MaxWorktreeEntries)}}
    /\ output = None

SpecDashboard == InitDashboard /\ [][UpdateManifest]_vars

(***************************************************************************)
(* util/shell.rs: shell_escape, checked on its own. A string is the        *)
(* sequence of its characters.                                             *)
(***************************************************************************)
\* the characters the bounded arguments are made of: a letter, a character
\* of the safe list, a blank and the single quote
ShellChars == {"a", "/", " ", "'"}

\* the arguments of the tests (shell.rs:78-79): "hello world" and "it's"
HelloWorld == <<"h", "e", "l", "l", "o", " ", "w", "o", "r", "l", "d">>
Its == <<"i", "t", "'", "s">>

\* the test of shell.rs:7: char::is_alphanumeric, on the letters in use, or
\* one of the five safe characters
IsPlain(c) ==
    \/ c \in {"a", "d", "e", "h", "i", "l", "o", "r", "s", "t", "w"}
    \/ c \in {"-", "_", ".", "/", ":"}

\* faulty variant: the single quotes are left as they are
ReplaceKeepsQuote(str) == str

\* str::replace (shell.rs:11): each single quote becomes quote, backslash,
\* quote, quote
RECURSIVE Replace(_)
Replace(str) ==
    IF str = <<>> THEN <<>>
    ELSE (IF Head(str) = "'" THEN <<"'", "\\", "'", "'">> ELSE <<Head(str)>>)
             \o Replace(Tail(str))

\* shell_escape (shell.rs:2-12)
shell_escape(str) ==
    IF str = <<>> THEN <<"'", "'">>
    ELSE IF \A i \in 1..Len(str) : IsPlain(str[i]) THEN str
    ELSE <<"'">> \o Replace(str) \o <<"'">>

\* a caller escapes its argument (e.g. shell.rs:50)
ShellEscape ==
    /\ input.some
    /\ output = None
    /\ output' = Some(shell_escape(input.val))
    /\ UNCHANGED <<mgrVars, ws_queue, chanVars, stateVars, appVars, last_event, status_label,
                   input, server, sent_events>>

InitShell ==
    /\ InitProgram
    /\ input \in {Some(str) :
                     str \in UNION {[1..n -> ShellChars] : n \in 0..MaxLen}
                                 \cup {HelloWorld, Its}}
    /\ output = None

SpecShell == InitShell /\ [][ShellEscape]_vars

(***************************************************************************)
(* Claims                                                                  *)
(***************************************************************************)
Last(q) == q[Len(q)]

\* the loops whose stream is open
OpenStreams == {l \in Loops : pc[l] = "reading"}

\* C1: at most one connection loop, and so at most one open stream, is live
\* at any time under one manager, whatever calls of connect, disconnect and
\* reconnect_ws were made. Stated here in its weaker half: two loops never
\* hold an open stream at the same time.
C1_OneOpenStream == Cardinality(OpenStreams) <= 1

\* the wait before the n-th consecutive reconnect attempt
ExpectedWait(n) == Min(FloorMs * Pow2(n - 1), max_backoff_ms)

\* C2: with no successful open in between, the wait before the N-th
\* consecutive reconnect attempt of a loop is min(1000 * 2^(N-1), 30000) ms;
\* the first three are 1000, 2000 and 4000 ms. (nwait = MaxWaits stands for
\* every N >= MaxWaits, where the wait is the ceiling.)
C2_BackoffSchedule ==
    \A l \in Loops :
        pc[l] = "sleeping" =>
            /\ nwait[l] >= 1
            /\ backoff_ms[l] = ExpectedWait(nwait[l])
            /\ nwait[l] = 1 => backoff_ms[l] = 1000
            /\ nwait[l] = 2 => backoff_ms[l] = 2000
            /\ nwait[l] = 3 => backoff_ms[l] = 4000

\* C2 witness: a loop waits the ceiling after six consecutive failed attempts
C2_Witness ==
    \E l \in Loops :
        /\ pc[l] = "sleeping"
        /\ attempt[l] = "failed"
        /\ nwait[l] = 6
        /\ backoff_ms[l] = max_backoff_ms

\* the stream of this iteration was opened and has ended
StreamEnded(l) == attempt[l] \in {"closed", "errored", "stopped"}

\* C3: a successful open resets the delay to the floor: while the stream is
\* open the delay is 1000 ms, the wait that follows the end of the stream is
\* 1000 ms whatever failures preceded the open, and the first wait after a
\* failure that follows it is 2000 ms again.
C3_OpenResetsBackoff ==
    \A l \in Loops :
        /\ pc[l] = "reading" => backoff_ms[l] = FloorMs
        /\ (pc[l] \in {"after", "sleeping"} /\ StreamEnded(l)) =>
               backoff_ms[l] = FloorMs
        /\ (pc[l] = "sleeping" /\ attempt[l] = "failed" /\ nwait[l] = 2) =>
               backoff_ms[l] = 2 * FloorMs

\* C3 witness: a loop waits after the end of a stream whose open lowered a
\* delay that failures had raised
C3_Witness ==
    \E l \in Loops :
        /\ pc[l] = "sleeping"
        /\ StreamEnded(l)
        /\ reset_hit[l]
        /\ backoff_ms[l] = FloorMs

\* C4: a loop that disconnect() hit in its backoff wait, with no connect
\* after it, makes no further connection attempt: it finishes the wait,
\* looks at the flag and ends.
C4_NoAttemptAfterStopInWait ==
    \A l \in Loops : stopped_in_wait[l] => pc[l] \in {"sleeping", "top", "done"}

\* C4 witness: such a loop has ended
C4_Witness == \E l \in Loops : stopped_in_wait[l] /\ pc[l] = "done"

\* C5: after disconnect() with no later connect, every connection loop
\* eventually exits, also when a stream is open and the server sends nothing.
C5_LoopExitsAfterDisconnect ==
    (running = FALSE /\ Started) ~> (running = TRUE \/ LiveLoops = {})


\* the Domain Event variant each protocol tag is forwarded as
EventOfTag(tag) ==
    CASE tag = "manifest:updated" -> "ManifestUpdated"
      [] tag = "agent:status" -> "AgentStatusChanged"
      [] tag = "terminal:output" -> "TerminalOutput"
      [] tag = "error" -> "Error"

\* text frames that are malformed or carry a tag outside the protocol
BadTextFrames ==
    {t \in TextFrames :
        \/ "type" \notin DOMAIN t
        \/ t.type \notin ServerTags
        \/ t = TxtMissingField}

\* what the step of loop l on a frame that is not forwarded must leave behind
BadFrameOutcome(l) ==
    /\ ws_queue' = ws_queue
    /\ pc'[l] = "reading"
    /\ ping_handle'[l] = ping_handle[l]
    /\ attempt'[l] = "open"

\* what the step of loop l on the well-formed frame t must leave behind
ForwardedOutcome(l, t) ==
    /\ Len(ws_queue') = Len(ws_queue) + 1
    /\ SubSeq(ws_queue', 1, Len(ws_queue)) = ws_queue
    /\ Last(ws_queue').ev = EventOfTag(t.type)
    /\ pc'[l] = "reading"

\* C6: a malformed text frame, or one with a tag outside the protocol, read
\* while the flag is set emits no event, leaves the stream open and the read
\* loop running; a well-formed frame read after it on the same stream is
\* forwarded as the event of its tag. In every state with an open stream and
\* the flag set, the step on such a frame can be taken with this outcome and
\* with no other.
C6_BadFrameSkipped ==
    \A l \in Loops :
        (pc[l] = "reading" /\ running) =>
            /\ \A t \in BadTextFrames :
                   /\ ENABLED (RecvFrame(l, MsgText(t)) /\ BadFrameOutcome(l))
                   /\ ~ENABLED (RecvFrame(l, MsgText(t)) /\ ~BadFrameOutcome(l))
            /\ (stream_log[l] = "dropped" /\ Len(ws_queue) < MaxQueue) =>
                   \A t \in (TextFrames \ BadTextFrames) \ {TxtPong} :
                       /\ ENABLED (RecvFrame(l, MsgText(t))
                                      /\ ForwardedOutcome(l, t))
                       /\ ~ENABLED (RecvFrame(l, MsgText(t))
                                       /\ ~ForwardedOutcome(l, t))

\* C6 witness: a stream on which a frame was dropped and a later one forwarded
C6_Witness == \E l \in Loops : pc[l] = "reading" /\ stream_log[l] = "recovered"

\* what the step of loop l on an error frame must leave behind
ErrorFrameOutcome(l) ==
    /\ ws_queue' = Append(ws_queue, EvError("AUTH: invalid token"))
    /\ pc'[l] = "reading"
    /\ ping_handle'[l] = ping_handle[l]
    /\ attempt'[l] = "open"
    /\ backoff_ms'[l] = backoff_ms[l]
    /\ nwait'[l] = nwait[l]

\* C7: an error{code, message} frame on an open stream emits exactly one
\* Error("<code>: <message>") event and leaves the stream open: the read loop
\* goes on, no Disconnected is sent, no wait or attempt is started. In every
\* state with an open stream and the flag set, the step on that frame can be
\* taken with this outcome and with no other.
C7_ErrorFrameKeepsStream ==
    \A l \in Loops :
        (pc[l] = "reading" /\ running /\ Len(ws_queue) < MaxQueue) =>
            /\ ENABLED (RecvFrame(l, MsgText(TxtError)) /\ ErrorFrameOutcome(l))
            /\ ~ENABLED (RecvFrame(l, MsgText(TxtError))
                            /\ ~ErrorFrameOutcome(l))

\* C7 witness: the Error event of the frame is queued and a stream is open
C7_Witness ==
    /\ ws_queue # <<>>
    /\ Last(ws_queue) = EvError("AUTH: invalid token")
    /\ OpenStreams # {}

\* loop l leaves its read loop in this step
StreamEnds(l) == pc[l] = "reading" /\ pc'[l] # "reading"

\* after the end of a stream: wait the current delay if the flag is set, then
\* attempt again if it still is
WaitsThenRetries(l) ==
    /\ (pc[l] = "after" /\ pc'[l] # "after" /\ running) =>
           pc'[l] = "sleeping" /\ backoff_ms'[l] = backoff_ms[l]
    /\ (pc[l] = "sleeping" /\ pc'[l] # "sleeping") => pc'[l] = "top"
    /\ (pc[l] = "top" /\ pc'[l] # "top" /\ running) => pc'[l] = "connecting"

C9_ReceiverTakenOnce ==
    /\ ws_consumers <= 1
    /\ toast_consumers <= 1
    /\ ws_consumers = 1 => (take_ws_rx.ret = None /\ ws_rx = None)
    /\ toast_consumers = 1 => (take_toast_rx.ret = None /\ toast_rx = None)
    /\ ws_consumers = 0 => take_ws_rx.ret = Some("ws_rx")
    /\ toast_consumers = 0 => take_toast_rx.ret = Some("toast_rx")

\* C9 witness: both receivers were taken, and setup_event_loops can run again
C9_Witness ==
    /\ ws_consumers = 1
    /\ toast_consumers = 1
    /\ take_ws_rx.ret = None
    /\ take_toast_rx.ret = None
    /\ ENABLED SetupEventLoops

\* C10: manifest() returns exactly the value of the last set_manifest that
\* returned (absent if none did), and under every interleaving of readers and
\* writers its result is absent or a manifest passed whole to set_manifest.
C10_ReadAfterWrite ==
    \A t \in Threads :
        tpc[t] = "return" =>
            /\ tbuf[t] = last_set
            /\ tbuf[t] = None \/ tbuf[t].val \in Manifests

\* C10 witness: two readers hold the lock, one returning a manifest that
\* was set
C10_Witness ==
    \E t, u \in Threads :
        /\ t # u
        /\ tpc[t] = "return"
        /\ tbuf[t].some
        /\ tbuf[t] = last_set
        /\ tpc[u] \in {"clone", "clone_rest"}

\* C11: when the consumer processes ManifestUpdated(m) the stored manifest
\* becomes exactly m, whatever was stored before: no worktree and no agent of
\* the manifest held before survives unless m has it.
C11_ManifestReplacedWhole ==
    [][(ConsumeEvent /\ Head(ws_queue).ev = "ManifestUpdated") =>
          LET m == Head(ws_queue).manifest IN
            /\ manifest' = Some(m)
            /\ DOMAIN manifest'.val.worktrees = DOMAIN m.worktrees
            /\ \A w \in DOMAIN m.worktrees :
                   manifest'.val.worktrees[w] = m.worktrees[w]]_vars

\* C11 witness: a manifest was applied and the consumer is about to apply
\* one that shares no worktree with it
C11_Witness ==
    /\ manifest.some
    /\ ws_consumers > 0
    /\ ws_queue # <<>>
    /\ Head(ws_queue).ev = "ManifestUpdated"
    /\ DOMAIN Head(ws_queue).manifest.worktrees
           \cap DOMAIN manifest.val.worktrees = {}

\* C12: the connection status is changed only by the consumer applying an
\* event of the manager or by a connect request (the reconnect action, the
\* connect of start()); no other operation, the status fetch in particular,
\* changes it.
C12_StatusChangedByEventsOrRequests ==
    [][connection' # connection =>
          \/ ConsumeEvent
          \/ ReconnectAction(MaxConnects)
          \/ WindowStartConnect]_vars

\* C13: while a stream is open the keepalive task writes a liveness probe to
\* the stream at every tick of its interval.
C13_ProbeSentEachTick ==
    \A l \in Loops :
        (ping_handle[l] /\ running) =>
            ENABLED (PingTick(l) /\ probes_sent'[l] = probes_sent[l] + 1)

\* C14: the keepalive task lives within one connection: it is there only
\* while the read loop of the stream it was started for runs, never during
\* the backoff wait, a later attempt or after the loop has ended.
C14_ProbeTaskWithinConnection ==
    \A l \in Loops : ping_handle[l] => pc[l] = "reading"

\* C14 witness: a loop waits to reconnect after its stream ended, the
\* keepalive task gone
C14_Witness ==
    \E l \in Loops :
        /\ pc[l] = "sleeping"
        /\ StreamEnded(l)
        /\ running
        /\ ~ping_handle[l]

\* C15: every connection attempt of a loop opens the stream with the address
\* and the credential configured at the time of the attempt.
C15_AttemptUsesCurrentSettings ==
    [][\A l \in Loops :
          (pc[l] = "top" /\ pc'[l] = "connecting") =>
              AttemptUrl(ws_url[l].val) = AttemptUrl(Target(settings))]_vars

\* C16: the manager never gives up: a loop ends only with the run flag
\* clear, and every connect failure and every stream end is followed by
\* another connection attempt unless the flag is cleared.
C16_NeverGivesUp ==
    /\ [][\A l \in Loops : (pc[l] # "done" /\ pc'[l] = "done") => ~running]_vars
    /\ \A l \in Loops :
           (pc[l] = "after") ~> (pc[l] = "connecting" \/ ~running)

\* C16 witness: a loop attempts again after three consecutive waits
C16_Witness ==
    \E l \in Loops : pc[l] = "connecting" /\ nwait[l] = 3 /\ running

\* C17: a fresh start resets the delay to the floor: whatever delay another
\* loop had reached, a loop started by connect() holds 1000 ms until its
\* first wait is over, so its first wait is 1000 ms.
C17_FreshStartAtFloor ==
    \A l \in Loops :
        /\ (Live(l) /\ nwait[l] = 0) => backoff_ms[l] = FloorMs
        /\ (pc[l] = "sleeping" /\ nwait[l] = 1) => backoff_ms[l] = FloorMs

\* C17 witness: a loop in its first wait at the floor while the loop before
\* it has reached a longer delay
C17_Witness ==
    \E l \in Loops :
        /\ l > 1
        /\ pc[l] = "sleeping"
        /\ attempt[l] = "failed"
        /\ nwait[l] = 1
        /\ backoff_ms[l] = FloorMs
        /\ Live(l - 1)
        /\ backoff_ms[l - 1] >= 4 * FloorMs

\* C18: no operation of the Transport Client retries: a call issues exactly
\* one request, whether it succeeds or fails.
C18_OneRequestPerCall ==
    \A c \in Calls :
        calls[c].st \in {"inflight", "returned"} => calls[c].sent = 1

\* C18 witness: a call that failed has returned after its one request
C18_Witness ==
    \E c \in Calls :
        /\ calls[c].st = "returned"
        /\ ~calls[c].result.ok
        /\ calls[c].sent = 1

\* C19: update_connection takes effect on the next call and not on calls in
\* flight: a call that starts uses the address and credential the client
\* holds then, its request is not touched while it is in flight, and the
\* client holds the new ones once update_connection has run.
C19_ReconfigureOnNextCall ==
    [][/\ \A c \in Calls :
             /\ (calls[c].st = "spawned" /\ calls'[c].st = "inflight") =>
                    /\ calls'[c].request.url.base = client.base_url
                    /\ calls'[c].request.auth = AuthHeader(client)
             /\ (calls[c].st = "inflight" /\ calls'[c].st = "inflight") =>
                    calls'[c].request = calls[c].request
             /\ (calls[c].st = "inflight" /\ client' # client) =>
                    calls'[c].st # "inflight"
       /\ (ui = "update_connection" /\ ui' = "idle") =>
              client' = ClientOf(settings.server_url, settings.bearer_token)]_vars

\* C19 witness: update_connection has run and a call started after it is in
\* flight to the new address with the new credential
C19_Witness ==
    \E c \in Calls :
        /\ ui = "idle"
        /\ client.base_url.host = "ppg.example"
        /\ calls[c].st = "inflight"
        /\ calls[c].request.url.base = client.base_url
        /\ calls[c].request.auth = Some("Bearer tok")

\* C20: no writer of the shared state is inside an external call (file or
\* network I/O) while it holds the write lock.
C20_NoExternalCallUnderWriteLock ==
    \A t \in Threads : tpc[t] = "save" => rw_writer # t

\* a call of a command handler returns in this step
CommandReturns(c) ==
    /\ calls[c].st = "inflight"
    /\ calls[c].origin \in Handlers
    /\ calls'[c].st # "inflight"

\* C21: every command runs as its own task, entered by the handler without
\* waiting for it, and delivers the result of its call, success or failure,
\* as one Notification on the notification queue; the task writes neither
\* the Manifest nor the ConnectionStatus, and a step of the connection loop
\* that is due can be taken whatever calls are under way.
C21_CommandResultNotified ==
    /\ [][\A c \in Calls :
             /\ (calls[c].st = "idle" /\ calls'[c].st # "idle") =>
                    (calls'[c].st = "spawned" /\ ui' = "idle")
             /\ CommandReturns(c) =>
                    /\ Len(toast_queue') = Len(toast_queue) + 1
                    /\ Last(toast_queue').is_error \in BOOLEAN
                    /\ manifest' = manifest
                    /\ connection' = connection
                    /\ \A l \in Loops : pc'[l] = pc[l]]_vars
    /\ [](\A l \in Loops :
             (pc[l] \in {"top", "after", "sleeping"}) =>
                 ENABLED (LoopTop(l) \/ AfterCheck(l) \/ SleepDone(l)))

\* C22: every error message of the transport layer (connect failure) and of
\* the protocol layer (error frame) is surfaced verbatim as a Notification:
\* when the consumer processes an Error(msg) event, one Notification whose
\* text is msg is put on the notification queue.
C22_ErrorSurfacedAsNotification ==
    [][(ConsumeEvent /\ Head(ws_queue).ev = "Error") =>
          /\ Len(toast_queue') = Len(toast_queue) + 1
          /\ Last(toast_queue').text = Head(ws_queue).msg]_vars

\* the outcome a response calls for, decided in the order of the claim
ExpectedOutcome(resp) ==
    IF resp.kind = "unsent" THEN "network_failure"
    ELSE IF ~(resp.status \in 200..299) THEN "server_error"
    ELSE IF ~resp.decodes THEN "decode_failure"
    ELSE "payload"

\* the outcome a returned result is
OutcomeOf(result) ==
    IF result.ok THEN "payload"
    ELSE IF "status" \in DOMAIN result.err THEN "server_error"
    ELSE IF result.err.context = "Failed to parse JSON response"
         THEN "decode_failure"
    ELSE "network_failure"

\* what the return of call c on resp must leave behind
FourOutcomes(c, resp) ==
    LET r == calls'[c].result IN
      /\ OutcomeOf(r) = ExpectedOutcome(resp)
      /\ ExpectedOutcome(resp) = "server_error" =>
             (r.err.status = resp.status /\ r.err.body = resp.body)

FoldedOutcome(c, resp) ==
    LET r == calls'[c].result IN
      /\ r.ok
      /\ r.val = (ExpectedOutcome(resp) = "payload")

\* what the return of call c on resp must leave behind, by its operation
OutcomeByOp(c, resp) ==
    IF calls[c].op = "test_connection"
    THEN FoldedOutcome(c, resp)
    ELSE FourOutcomes(c, resp)

PongOutcome(l) ==
    /\ ws_queue' = ws_queue
    /\ manifest' = manifest
    /\ connection' = connection
    /\ pc'[l] = "reading"

\* C24: a pong frame emits no Domain Event and changes neither the Manifest
\* nor the ConnectionStatus: in every state with an open stream and the flag
\* set, the step on a pong frame can be taken, whatever the event queue
\* holds, and leaves the queue, the manifest and the status as they were.
C24_PongEmitsNothing ==
    \A l \in Loops :
        (pc[l] = "reading" /\ running) =>
            /\ ENABLED (RecvFrame(l, MsgText(TxtPong)) /\ PongOutcome(l))
            /\ ~ENABLED (RecvFrame(l, MsgText(TxtPong)) /\ ~PongOutcome(l))

\* C24 witness: a pong frame can be read on an open stream while a manifest
\* is stored, the status is Connected and the event queue is empty
C24_Witness ==
    \E l \in Loops :
        /\ pc[l] = "reading"
        /\ running
        /\ manifest.some
        /\ connection.st = "Connected"
        /\ ws_queue = <<>>
        /\ ENABLED RecvFrame(l, MsgText(TxtPong))

\* C25: the Manifest is absent from creation until the first successful
\* snapshot fetch or the first ManifestUpdated event is applied: it becomes
\* present only by one of the two, and once present it is never absent again,
\* whatever follows (disconnects, errors, failed fetches, reconnects).
C25_ManifestNeverAbsentAgain ==
    /\ manifest = None
    /\ [][/\ manifest.some => manifest'.some
          /\ (~manifest.some /\ manifest'.some) =>
                 \/ ConsumeEvent /\ Head(ws_queue).ev = "ManifestUpdated"
                 \/ \E c \in Calls : FetchCallback(c) /\ calls[c].result.ok]_vars

\* C25 witness: a manifest is present after the stream that brought it has
\* ended or failed, and the callback of a failed fetch is about to run
C25_Witness ==
    \E c \in Calls :
        /\ manifest.some
        /\ connection.st \in {"Reconnecting", "Error"}
        /\ calls[c].st = "returned"
        /\ calls[c].origin = "connect"
        /\ ~calls[c].result.ok
        /\ ENABLED FetchCallback(c)

\* the step that sends the toast msg
SendsToast(msg) == IF msg.is_error THEN toast_error(msg.text) ELSE toast(msg.text)

\* C26: every Notification sent is received by the sink at most once and
\* none is lost, also when it is sent before the sink has claimed the
\* receiver: a send can always be made and puts the toast at the end of the
\* queue; the queue is drained by one sink at most, which takes exactly the
\* head, and by nothing before the sink has the receiver; no other step
\* touches the queue.
C26_ToastDeliveredOnce ==
    /\ toast_consumers <= 1
    /\ \A text \in ToastTexts, is_error \in BOOLEAN :
           LET msg == ToastMessage(text, is_error) IN
             Len(toast_queue) < MaxToasts =>
                 /\ ENABLED (SendsToast(msg)
                                /\ toast_queue' = Append(toast_queue, msg))
                 /\ ~ENABLED (SendsToast(msg)
                                 /\ toast_queue' # Append(toast_queue, msg))
    /\ (toast_queue # <<>> /\ toast_consumers = 0) => ~ENABLED ToastSink
    /\ (toast_queue # <<>> /\ toast_consumers = 1) =>
           /\ ENABLED (ToastSink /\ toast_queue' = Tail(toast_queue))
           /\ ~ENABLED (ToastSink /\ toast_queue' # Tail(toast_queue))
    /\ ~ENABLED ((WindowStartSetup \/ SetupEventLoops)
                    /\ toast_queue' # toast_queue)

\* C26 witness: two different toasts sent before the sink has claimed the
\* receiver wait in the queue in the order sent
C26_Witness ==
    /\ toast_consumers = 0
    /\ toast_rx.some
    /\ Len(toast_queue) = 2
    /\ toast_queue[1] = ToastMessage("Reconnecting...", FALSE)
    /\ toast_queue[2] = ToastMessage("Connection failed", TRUE)

\* the consumer can take the head of the queue and apply it
HeadCanBeApplied ==
    LET event == Head(ws_queue) IN
      /\ ENABLED (ConsumeEvent /\ ws_queue' = Tail(ws_queue))
      /\ event.ev = "ManifestUpdated" =>
             ENABLED (ConsumeEvent /\ manifest' = Some(event.manifest))
      /\ event.ev = "Connected" =>
             ENABLED (ConsumeEvent /\ connection' = [st |-> "Connected"])

\* C27: a failure of the stream never ends the consuming task: once the
\* consumer has the receiver it is there for good, and after it has applied
\* an Error or a Disconnected event every later event of the manager can
\* still be taken from the queue and applied to the shared state.
C27_ConsumerSurvivesFailures ==
    /\ ws_rx = None => ws_consumers = 1
    /\ (ws_queue # <<>> /\ ws_rx = None) => HeadCanBeApplied

\* C27 witness: the consumer has applied an Error event and a manifest
\* update sent after it waits in the queue
C27_Witness ==
    /\ ws_consumers = 1
    /\ connection.st = "Error"
    /\ last_event = Some(EvError("AUTH: invalid token"))
    /\ ws_queue # <<>>
    /\ Head(ws_queue).ev = "ManifestUpdated"

\* the number of agents of the worktrees ids whose entry is in the set S,
\* summed worktree by worktree
RECURSIVE SumAgents(_, _, _)
SumAgents(worktrees, ids, S) ==
    IF ids = {} THEN 0
    ELSE LET w == CHOOSE x \in ids : TRUE IN
           Cardinality({a \in DOMAIN worktrees[w].agents :
                           worktrees[w].agents[a] \in S})
               + SumAgents(worktrees, ids \ {w}, S)

\* agents that are running; agents that exited with an exit code other
\* than 0, an exited agent without exit code being one of them
RunningAgents == {e \in AgentEntries : e.status = "running"}
ExitedFailedAgents ==
    {e \in AgentEntries :
        e.status = "exited" /\ (e.exit_code.some => e.exit_code.val # 0)}

\* the manifest of the scenario: one worktree, one agent running and one
\* exited with exit code 1
ScenarioManifest ==
    Manifest(1, "s1",
             [w \in {1} |->
                 WorktreeEntry([a \in {1, 2} |->
                     IF a = 1 THEN AgentEntry("running", None)
                     ELSE AgentEntry("exited", Some(1))])])

\* C28: for every manifest handed to the dashboard the derived counts are:
\* worktree count = number of worktree entries; Running = agents whose status
\* is Running; Exited-failed = agents whose status is Exited and whose exit
\* code is not 0; no agent is counted in two categories. One worktree with a
\* Running agent and an agent Exited with code 1 gives worktree count 1,
\* Running 1 and Exited-failed 1.
C28_DerivedCounts ==
    output.some =>
        LET m == input.val
            o == output.val
            ids == DOMAIN m.worktrees IN
          /\ o.worktree_count = Cardinality(ids)
          /\ o.running = SumAgents(m.worktrees, ids, RunningAgents)
          /\ count_agents_by_status(m, "running") = o.running
          /\ o.failed = SumAgents(m.worktrees, ids, ExitedFailedAgents)
          /\ o.running + o.completed + o.failed + o.killed
                 <= SumAgents(m.worktrees, ids, AgentEntries)
          /\ m = ScenarioManifest =>
                 (o.worktree_count = 1 /\ o.running = 1 /\ o.failed = 1
                    /\ o.completed = 0 /\ o.killed = 0)

\* C28 witness: the counts of the scenario's manifest have been derived
C28_Witness ==
    /\ input = Some(ScenarioManifest)
    /\ output.some
    /\ output.val.worktree_count = 1
    /\ output.val.running = 1
    /\ output.val.failed = 1

\* the single quotes of a string
NumQuotes(str) == Cardinality({i \in 1..Len(str) : str[i] = "'"})

\* a quoted text read back: quote, backslash, quote, quote stands for one
\* single quote, every other character for itself
RECURSIVE Unquoted(_)
Unquoted(str) ==
    IF str = <<>> THEN <<>>
    ELSE IF Len(str) >= 4 /\ SubSeq(str, 1, 4) = <<"'", "\\", "'", "'">>
         THEN <<"'">> \o Unquoted(SubSeq(str, 5, Len(str)))
    ELSE <<Head(str)>> \o Unquoted(Tail(str))

\* the characters the claim lets through unquoted
PlainChars ==
    {c \in ShellChars \cup {HelloWorld[i] : i \in 1..Len(HelloWorld)}
                      \cup {Its[i] : i \in 1..Len(Its)} :
        c \notin {" ", "'"}}

\* C29: shell_escape(s) is two single quotes for the empty string, s itself
\* when every character of s is alphanumeric or one of - _ . / :, and
\* otherwise s in single quotes with every single quote inside replaced by
\* quote-backslash-quote-quote; so "hello world" gives the same in single
\* quotes and "it's" gives 'it' then backslash-quote then 's'.
C29_ShellEscape ==
    output.some =>
        LET str == input.val
            r == output.val IN
          /\ str = <<>> => r = <<"'", "'">>
          /\ (str # <<>> /\ \A i \in 1..Len(str) : str[i] \in PlainChars) =>
                 r = str
          /\ (\E i \in 1..Len(str) : str[i] \notin PlainChars) =>
                 /\ Len(r) = Len(str) + 2 + 3 * NumQuotes(str)
                 /\ Head(r) = "'"
                 /\ Last(r) = "'"
                 /\ Unquoted(SubSeq(r, 2, Len(r) - 1)) = str
          /\ str = HelloWorld => r = <<"'">> \o HelloWorld \o <<"'">>
          /\ str = Its =>
                 r = <<"'", "i", "t", "'", "\\", "'", "'", "s", "'">>

\* C29 witness: "it's" has been escaped
C29_Witness ==
    /\ input = Some(Its)
    /\ output = Some(<<"'", "i", "t", "'", "\\", "'", "'", "s", "'">>)

\* the status that goes with a lifecycle event, as the claim lists it
StatusFor(event) ==
    CASE event.ev = "Connected" -> [st |-> "Connected"]
      [] event.ev = "Disconnected" -> [st |-> "Reconnecting"]
      [] event.ev = "Error" -> [st |-> "Error", msg |-> event.msg]

\* C30: the consumer sets the status to Connected for Connected, to
\* Reconnecting for Disconnected and to Error(msg) for Error(msg), and leaves
\* it alone for the other events; so once the consumer has drained the queue
\* the status is the one of the latest lifecycle event it has seen (or the
\* Connecting of a connect request made since).
C30_StatusFollowsLatestEvent ==
    (ws_queue = <<>> /\ last_event.some /\ connection.st # "Connecting") =>
        connection = StatusFor(last_event.val)

\* the consumer's part of C30 alone: what one event does to the status
C30_ConsumerMapping ==
    (ws_consumers > 0 /\ ws_queue # <<>>) =>
        ENABLED (/\ ConsumeEvent
                 /\ connection' =
                        IF Head(ws_queue).ev \in LifecycleEvents
                        THEN StatusFor(Head(ws_queue)) ELSE connection)

\* C31: the events of one connection loop follow the pattern: per attempt
\* one Error("Connection failed: ..") or one Connected, then any number of
\* frame events, then exactly one Disconnected; no frame event outside the
\* Connected..Disconnected bracket of its loop. The bracket is open exactly
\* while the loop reads its stream.
C31_EventPattern ==
    \A l \in Loops :
        /\ bracket[l] \in {"out", "in"}
        /\ bracket[l] = "in" <=> pc[l] = "reading"

\* C31 witness: a loop left its stream after a stop, the bracket closed by
\* the Disconnected now in the channel
C31_Witness ==
    \E l \in Loops :
        /\ pc[l] = "after"
        /\ attempt[l] = "stopped"
        /\ bracket[l] = "out"
        /\ ws_queue = <<EvDisconnected>>

\* C32: in every state of a connection loop its backoff delay is between
\* 1000 ms and 30000 ms inclusive, and the delay changes only by doubling,
\* capped at 30000, at the end of a wait, or by the reset to 1000 of a
\* successful open.
C32_BackoffWithinBounds ==
    /\ [](\A l \in Loops :
             Live(l) => (1000 <= backoff_ms[l] /\ backoff_ms[l] <= 30000))
    /\ [][\A l \in Loops :
              (Live(l) /\ Live(l)' /\ backoff_ms'[l] # backoff_ms[l]) =>
                  \/ /\ pc[l] = "sleeping"
                     /\ pc'[l] = "top"
                     /\ backoff_ms'[l] =
                            IF 2 * backoff_ms[l] > 30000 THEN 30000
                            ELSE 2 * backoff_ms[l]
                  \/ /\ pc[l] = "connecting"
                     /\ pc'[l] = "reading"
                     /\ backoff_ms'[l] = 1000]_vars

\* C32 witness: a wait at the ceiling has ended and the delay stayed there
C32_Witness ==
    \E l \in Loops :
        /\ pc[l] = "top"
        /\ nwait[l] = MaxWaits
        /\ backoff_ms[l] = 30000

\* C33: the consumer applying AgentStatusChanged or TerminalOutput leaves
\* the stored manifest and the connection status as they are; the stored
\* manifest changes only by being replaced as a whole by a manifest the
\* server sent, never by an edit of one agent.
C33_StatusEventsLeaveState ==
    [][/\ (ConsumeEvent /\ Head(ws_queue).ev \in
               {"AgentStatusChanged", "TerminalOutput"}) =>
              (manifest' = manifest /\ connection' = connection)
       /\ manifest' # manifest =>
              (/\ ConsumeEvent
               /\ Head(ws_queue).ev = "ManifestUpdated"
               /\ manifest' \in {Some(m) : m \in Manifests})]_vars

\* C33 witness: a manifest is stored, the stream is up, and the consumer is
\* about to apply a status event
C33_Witness ==
    /\ ws_consumers > 0
    /\ manifest.some
    /\ connection.st = "Connected"
    /\ ws_queue # <<>>
    /\ Head(ws_queue).ev = "AgentStatusChanged"

\* C34: the status the header shows never departs from the status held in
\* the shared state: whenever the display is updated, the failure path of the
\* initial status fetch included, it shows connection_state().
C34_DisplayShowsStoredStatus ==
    [][status_label' # status_label =>
          status_label' = update_status_ui(connection')]_vars

\* C35: the stored manifest never goes back to an older snapshot: when the
\* initial status fetch and the ManifestUpdated events of the stream race, a
\* snapshot the service produced earlier never replaces a later one that was
\* already applied, so with all pending work done the state holds the
\* service's latest snapshot.
C35_ManifestNeverOlder ==
    [][\A c \in Calls :
          (FetchCallback(c) /\ manifest.some /\ manifest'.some) =>
              manifest'.val.version >= manifest.val.version]_vars

\* C36: the status Reconnecting means a reconnect will be attempted: once the
\* consumer has drained the events, the status is Reconnecting only if the
\* run flag is set and a connection loop is live; after disconnect() with no
\* later connect it does not stay Reconnecting.
C36_ReconnectingMeansRetry ==
    (ws_queue = <<>> /\ connection.st = "Reconnecting") =>
        (running /\ LiveLoops # {})

\* C37: once disconnect() has cleared the run flag, and while it stays
\* clear, the loop forwards no event made from a frame: the frame at whose
\* arrival the clear flag is seen is dropped undecoded, and the only event a
\* loop still sends is the closing Disconnected.
C37_OnlyDisconnectedAfterStop ==
    [][(~running /\ ~running' /\ Len(ws_queue') > Len(ws_queue)) =>
          ws_queue' = Append(ws_queue, EvDisconnected)]_vars

\* the part of C37 about the frames alone: with the flag clear, an item of
\* the stream makes the loop send the closing Disconnected and nothing else
C37_FrameDroppedAfterStop ==
    [][\A l \in Loops, msg \in Messages :
          (~running /\ RecvFrame(l, msg)) =>
              /\ ws_queue' = Append(ws_queue, EvDisconnected)
              /\ pc'[l] = "after"]_vars

\* the stored manifest after the events of evs were applied in order
RECURSIVE ManifestOf(_)
ManifestOf(evs) ==
    IF evs = <<>> THEN None
    ELSE IF evs[Len(evs)].ev = "ManifestUpdated"
         THEN Some(evs[Len(evs)].manifest)
    ELSE ManifestOf(SubSeq(evs, 1, Len(evs) - 1))

\* the lifecycle event applied last among those of evs
RECURSIVE LifecycleOf(_)
LifecycleOf(evs) ==
    IF evs = <<>> THEN None
    ELSE IF evs[Len(evs)].ev \in {"Connected", "Disconnected", "Error"}
         THEN Some(evs[Len(evs)])
    ELSE LifecycleOf(SubSeq(evs, 1, Len(evs) - 1))

\* C38: the events reach the consumer in the order they were sent, each
\* once: what the channel holds is the rest of what was sent, what was
\* applied is what came before it, in that order; so with the channel
\* drained (and no status fetch) the stored manifest is the payload of the
\* last ManifestUpdated sent.
C38_FifoExactlyOnce ==
    LET k == Len(sent_events) - Len(ws_queue) IN
      /\ k >= 0
      /\ ws_queue = SubSeq(sent_events, k + 1, Len(sent_events))
      /\ manifest = ManifestOf(SubSeq(sent_events, 1, k))
      /\ last_event = LifecycleOf(SubSeq(sent_events, 1, k))
      /\ ws_queue = <<>> => manifest = ManifestOf(sent_events)

\* C38 witness: the consumer has applied Connected and is two events
\* behind, the channel holding two different manifests
C38_Witness ==
    /\ last_event = Some(EvConnected)
    /\ Len(ws_queue) = 2
    /\ ws_queue[1].ev = "ManifestUpdated"
    /\ ws_queue[2].ev = "ManifestUpdated"
    /\ ws_queue[1] # ws_queue[2]

\* C39: test_connection never returns an error: it returns true exactly when
\* the health call succeeds (the request is answered, with a success status
\* and a body that decodes) and the status reported is "ok", and false for
\* every failure of the call and for every other status reported.
C39_TestConnectionFolds ==
    output.some =>
        LET r == input.val.resp
            succeeds == /\ r.kind = "response"
                        /\ r.status \in 200..299
                        /\ r.decodes IN
          /\ output.val.ok
          /\ output.val.val \in BOOLEAN
          /\ output.val.val <=> (succeeds /\ input.val.status = "ok")

\* C39 witness: health() succeeded with another status than "ok" and
\* test_connection returned false
C39_Witness ==
    /\ input = Some([resp |-> Response(200, "{..}", TRUE), status |-> "degraded"])
    /\ output = Some(Ok(FALSE))

=============================================================================
